---- MODULE Spec2Model ----
(***************************************************************************)
(* Model of the GNSS message hub (ubx-gps-server): the framed envelope     *)
(* layer (Connection), the ConnectionPool broadcast sink and multiplexed   *)
(* source, the reconnecting OutgoingConnection, the hub loop with its      *)
(* serial framing, the TCP configuration client and GpsDevice.             *)
(*                                                                         *)
(* Each component has its own specification over its own group of          *)
(* variables; the variables of the other components stay at their initial  *)
(* value.  Bytes are naturals 0..255, byte strings are sequences.          *)
(***************************************************************************)
EXTENDS Integers, Sequences, FiniteSets, TLC

VARIABLES
    \* ---- Connection stream (one Connection over one socket) ----
    c_xs,        \* payloads the peer writes as envelopes, fixed at start
    c_arrived,   \* number of bytes of the peer's byte stream handed to the socket
    c_rx,        \* socket reads waiting: a queue of non-empty byte chunks
    c_rd,        \* what a read returns once c_rx is empty: "open", "eof", "err"
    c_conn,      \* the Connection: pending, buffer, write_pending
    c_yielded,   \* items the stream has yielded so far, in order
    c_last,      \* result of the last poll_next: "init", "item", "pending", "none", "err"
    c_sink,      \* the Connection driven as a Sink: items given to start_send, bytes
                 \* written to the socket, last call and its result, overflow checks
    \* ---- ConnectionPool and the caller that broadcasts ----
    p_connections, \* ConnectionPool.connections
    p_send,        \* ConnectionPool.send: None or Some((idx, data))
    p_backlog,     \* sockets waiting in the listener
    p_used,        \* number of sockets that ever connected
    p_wire,        \* per socket: bytes written to it since the last send began
    p_failed,      \* sockets that reported an error or the end of their stream
    p_nreads,      \* number of chunks the pool has read from its peers
    p_checks,      \* the build has overflow checks
    p_phase,       \* caller: "idle", "send", "send_flush", "flush", "panicked"
    p_item,        \* payload of the send in progress
    p_last,        \* last pool operation and its result
    p_log,         \* payloads handed to start_send so far
    p_joined,      \* per socket: Len(p_log) when the pool accepted it, or NoneVal
    p_handed,      \* sockets whose connection was handed the last payload, in order
    p_stream,      \* on: the run records, per socket, all the bytes written to it
                   \* since it connected; bytes: that record
    \* ---- hub loop (bin/server.rs) ----
    h_stream,             \* bytes the receiver has still to deliver on the serial port
    h_expected,           \* the valid messages of the serial stream, in order
    h_pending_read_bytes, \* the hub's framing accumulator
    h_forwarded,          \* messages split off and forwarded, in order
    h_loop,               \* "running", or how run() returned: "ok", "err"
    h_quit,               \* a Quit frame has been handled
    h_last,               \* source and payload of the last peer message handled
    h_written,            \* last payload written to the serial port
    h_port,               \* port_path, port_baud and port: None or the open SerialStream
    \* ---- OutgoingConnection (connection/outgoing.rs) and its peer ----
    o_reachable,  \* the upstream address accepts connections
    o_state,      \* "Start", "Waiting", "Connecting", "Connected"
    o_timer,      \* the Sleep of Waiting: "none", "armed", "fired"
    o_connect,    \* the connect future of Connecting: "none", "inflight", "ok", "err"
    o_conn,       \* the Connection of Connected
    o_xs,         \* payloads the peer writes on every connection it accepts
    o_arrived,    \* bytes of the peer's stream handed to the current socket
    o_rx,         \* socket reads waiting on the current socket
    o_rd,         \* what a read returns once o_rx is empty
    o_yielded,    \* items yielded from the current connection
    o_last,       \* result of the last poll_next: "init", "pending", "item", "none"
    o_faults,     \* set_nodelay failures so far
    o_connected,  \* the state machine has entered Connected
    o_address,    \* OutgoingConnection.address: "Some" or "None"
    o_path,       \* the transitions of self.connection in the last call
    o_try,        \* the calls of try_send_message so far: their number, the last one's
                  \* message, return value, bytes written and whether the write failed
    \* ---- TCP configuration client (bin/config.rs set) ----
    g_nchunks,    \* chunks of 64 values the configuration file makes
    g_done,       \* chunks completed
    g_pc,         \* "write", "wait", "finished", "nak", "closed", "failed"
    g_sent,       \* VALSET messages written to the connection
    g_last,       \* last thing tcp.next() returned while waiting
    g_nak,        \* a NAK for (0x06, 0x8a) was received while waiting
    g_keys,       \* file: the values of the configuration file; sent: the values of
                  \* each VALSET written; acks: ACK frames for (0x06, 0x8a) received
    \* ---- GpsDevice (device.rs) and the command-line set (cmd/config.rs) ----
    d_permits,     \* free permits of ack_sem
    d_pending_ack, \* None or Some((id, sender))
    d_chan,        \* the oneshot channels made so far: "open", "true", "false", "dropped"
    d_overwrote,   \* a config() replaced a pending_ack that was still unresolved
    d_last,        \* last call on the device, its result and the message read_raw
                   \* returned to it
    m_pc,          \* set: "idle", "select", "bailed", "returned", "failed"
    m_rx,          \* set: index of the channel it waits on
    m_sent,        \* VALSET messages set has written to the device
    m_nak,         \* set's transaction was answered with a NAK
    m_nchunks,     \* set: chunks of 64 values its value list makes
    \* ---- the codec (msg/*.rs, rtcm.rs) ----
    k_msg,         \* the GpsMsg value that is written and read back
    k_feed,        \* the bytes given to the parsers
    k_wire,        \* parse_write of k_msg
    k_back,        \* GpsMsg::parse_read of k_wire
    k_res,         \* the parser that was given k_feed and its result
    k_out,         \* parse_write of the value parsed from k_feed
    k_frame,       \* RtcmFrame::from_bytes of k_feed
    \* ---- TCP configuration client (bin/config.rs get) ----
    v_nchunks,     \* chunks of 64 keys the request makes
    v_sent,        \* VALGET requests written to the connection
    v_got,         \* VALGET responses received
    v_pc,          \* "write", "wait", "finished", "nak", "failed"
    v_last,        \* last thing tcp.next() returned while waiting
    \* ---- the framing probes on one buffer (msg/*.rs, bin/server.rs) ----
    f_b,           \* the buffer
    f_nmea,        \* Nmea::message_usage(b)
    f_gps,         \* GpsMsg::message_usage(b)
    f_acc,         \* pending_read_bytes in the framing loop of the serial arm
    f_iter,        \* turns of that loop so far
    \* ---- the Python bridge (gps_python_bridge/src/lib.rs) ----
    b_to_loop,     \* messages in the channel from GpsConnection::send to socket_loop
    b_to_py,       \* messages in the channel from socket_loop to GpsConnection::next
    b_pc,          \* socket_loop: "select", "send_err", "returned"
    b_last,        \* the last send into a channel: who sent, what the sender was
                   \* returned, whether the message was queued, and whether
                   \* socket_loop ran before and after it
    \* ---- GpsDevice::read_raw (device.rs) ----
    r_buffer,      \* GpsDevice.buffer
    r_pc,          \* read_raw: "idle", "loop", "ok", "err"
    r_turns,       \* turns of read_raw's loop in this call
    r_seen,        \* what GpsMsg::from_bytes gave in the last turn
    r_prev,        \* the buffer that turn started with
    r_reads,       \* extend_buffer calls so far
    \* ---- the select of the hub loop as a task (bin/server.rs) ----
    s_ready,       \* per source, whether its future has a payload to yield
    s_wakers,      \* the events that hold the waker of the hub task
    s_awake,       \* the task has been woken and will be polled
    s_pc,          \* where run() is: "select", or "flush" inside the serial arm
    s_sock,        \* the socket of the pool's peer: "writable" or "full"
    s_peer,        \* the pool's peer: "none", "backlog", "connected"
    s_lost         \* a Pending write made the peer's Connection forget an envelope

connVars == <<c_xs, c_arrived, c_rx, c_rd, c_conn, c_yielded, c_last, c_sink>>

poolVars == <<p_connections, p_send, p_backlog, p_used, p_wire, p_failed, p_nreads, p_checks,
              p_phase, p_item, p_last, p_log, p_joined, p_handed, p_stream>>

hubVars == <<h_stream, h_expected, h_pending_read_bytes, h_forwarded, h_loop, h_quit, h_last,
             h_written, h_port>>

outVars == <<o_reachable, o_state, o_timer, o_connect, o_conn, o_xs, o_arrived, o_rx, o_rd,
             o_yielded, o_last, o_faults, o_connected, o_address, o_try, o_path>>

cfgVars == <<g_nchunks, g_done, g_pc, g_sent, g_last, g_nak, g_keys>>

devVars == <<d_permits, d_pending_ack, d_chan, d_overwrote, d_last, m_pc, m_rx, m_sent, m_nak,
             m_nchunks>>

codecVars == <<k_msg, k_feed, k_wire, k_back, k_res, k_out, k_frame>>

getVars == <<v_nchunks, v_sent, v_got, v_pc, v_last>>

probeVars == <<f_b, f_nmea, f_gps, f_acc, f_iter>>

bridgeVars == <<b_to_loop, b_to_py, b_pc, b_last>>

rawVars == <<r_buffer, r_pc, r_turns, r_seen, r_prev, r_reads>>

selVars == <<s_ready, s_wakers, s_awake, s_pc, s_sock, s_peer, s_lost>>

vars == <<connVars, poolVars, hubVars, outVars, cfgVars, devVars, codecVars, getVars, probeVars, bridgeVars, rawVars, selVars>>

\* what an action of one component leaves alone
ConnFrame == UNCHANGED <<poolVars, hubVars, outVars, cfgVars, devVars, codecVars, getVars, probeVars, bridgeVars, rawVars, selVars>>
PoolFrame == UNCHANGED <<connVars, hubVars, outVars, cfgVars, devVars, codecVars, getVars, probeVars, bridgeVars, rawVars, selVars>>
HubFrame == UNCHANGED <<connVars, poolVars, outVars, cfgVars, devVars, codecVars, getVars, probeVars, bridgeVars, rawVars, selVars>>
OutFrame == UNCHANGED <<connVars, poolVars, hubVars, cfgVars, devVars, codecVars, getVars, probeVars, bridgeVars, rawVars, selVars>>
CfgFrame == UNCHANGED <<connVars, poolVars, hubVars, outVars, devVars, codecVars, getVars, probeVars, bridgeVars, rawVars, selVars>>
DevFrame == UNCHANGED <<connVars, poolVars, hubVars, outVars, cfgVars, codecVars, getVars, probeVars, bridgeVars, rawVars, selVars>>
CodecFrame == UNCHANGED <<connVars, poolVars, hubVars, outVars, cfgVars, devVars, getVars, probeVars, bridgeVars, rawVars, selVars>>
GetFrame == UNCHANGED <<connVars, poolVars, hubVars, outVars, cfgVars, devVars, codecVars, probeVars, bridgeVars, rawVars, selVars>>
ProbeFrame == UNCHANGED <<connVars, poolVars, hubVars, outVars, cfgVars, devVars, codecVars, getVars, bridgeVars, rawVars, selVars>>
BridgeFrame == UNCHANGED <<connVars, poolVars, hubVars, outVars, cfgVars, devVars, codecVars, getVars, probeVars, rawVars, selVars>>
RawFrame == UNCHANGED <<connVars, poolVars, hubVars, outVars, cfgVars, devVars, codecVars, getVars, probeVars, bridgeVars, selVars>>
SelFrame == UNCHANGED <<connVars, poolVars, hubVars, outVars, cfgVars, devVars, codecVars, getVars, probeVars, bridgeVars, rawVars>>

-----------------------------------------------------------------------------
(* Bounds of the model *)

\* longest sequence of payloads a peer writes to one Connection
MaxMsgs == 2
\* longest queue of unread socket chunks
MaxRx == 3
\* sockets that ever connect to the pool
MaxPeers == 2
\* payloads broadcast through the pool
MaxBroadcasts == 2
\* most writes a pool socket accepts during one poll
MaxWq == 2
\* most chunks a pool socket returns during one poll
MaxPoolRx == 1
\* chunks the pool reads from its peers in all
MaxPeerReads == 2
\* segments (messages and noise) of a serial stream
MaxSegs == 3
\* payloads the upstream peer writes on one connection
MaxOutMsgs == 2
\* longest queue of unread chunks on the outgoing socket
MaxOutRx == 1
\* set_nodelay failures on the outgoing socket
MaxFaults == 1
\* calls of try_send_message
MaxTries == 2
\* chunks of a configuration file
MaxChunks == 2
\* config() calls on one GpsDevice
MaxConfigs == 3
\* chunks of a list of keys given to get
MaxGetChunks == 3
\* bytes of a buffer of sentence bytes given to the framing probes
MaxProbeLen == 5
\* pieces of a buffer of stream pieces given to the framing probes
MaxPieces == 3

-----------------------------------------------------------------------------
(* Byte-string helpers *)

NoneVal == -1

Min(a, b) == IF a < b THEN a ELSE b

Take(s, n) == SubSeq(s, 1, Min(n, Len(s)))

Drop(s, n) == SubSeq(s, Min(n, Len(s)) + 1, Len(s))

Range(s) == { s[i] : i \in 1..Len(s) }

IsPrefix(s, t) == Len(s) <= Len(t) /\ SubSeq(t, 1, Len(s)) = s

SeqsUpTo(S, n) == UNION { [1..k -> S] : k \in 0..n }

RECURSIVE Concat(_)
Concat(ss) == IF ss = <<>> THEN <<>> ELSE Head(ss) \o Concat(Tail(ss))

\* u32::to_le_bytes
to_le_bytes(n) ==
    << n % 256, (n \div 256) % 256, (n \div 65536) % 256, (n \div 16777216) % 256 >>

\* u32::from_le_bytes
from_le_bytes(b) == b[1] + 256 * b[2] + 65536 * b[3] + 16777216 * b[4]

\* the envelope of one payload as Connection::write_message puts it on the wire
write_message(data) == to_le_bytes(Len(data)) \o data

RECURSIVE EnvelopeStream(_)
EnvelopeStream(ps) ==
    IF ps = <<>> THEN <<>> ELSE write_message(Head(ps)) \o EnvelopeStream(Tail(ps))

-----------------------------------------------------------------------------
(* Connection: the framed stream over one socket (connection.rs) *)

\* WriteState::None
WriteNone == [tag |-> "None"]

\* Connection::new over the socket tcp
NewConnection(tcp) ==
    [tcp |-> tcp, pending |-> NoneVal, buffer |-> <<>>, write_pending |-> WriteNone]

\* <[u8; 4]>::try_from(buffer.as_slice()): succeeds only for a slice of exactly 4
LenPrefixReady(buffer) == Len(buffer) = 4

\* the length step of Connection::poll_next after a read filled the buffer
ReadLen(conn) ==
    IF conn.pending = NoneVal /\ LenPrefixReady(conn.buffer)
    THEN [conn EXCEPT !.pending = from_le_bytes(conn.buffer), !.buffer = <<>>]
    ELSE conn

\* the pending length after a message was split off the buffer
PendingAfterYield(pending) == pending

\* a poll_read at the end of the stream that is an error while a message is
\* incomplete
ReadEmpty_ErrMidMessage(conn, rd) ==
    CASE rd = "err" -> "err"
      [] rd = "eof" -> IF conn.buffer # <<>> \/ conn.pending # NoneVal THEN "err" ELSE "none"
      [] OTHER -> "pending"

\* what poll_next returns when poll_read has no bytes: Ready(Err(e)) is
\* Ready(Some(Err(e))), Ready(Ok(())) with nothing filled, the end of the
\* stream, is Ready(None), whatever the buffer holds
ReadEmpty(conn, rd) ==
    CASE rd = "err" -> "err"
      [] rd = "eof" -> "none"
      [] OTHER -> "pending"

\* Connection::poll_next: every turn of the loop starts with a socket read.
\* rx is the queue of reads the socket will return, rd what follows them.
RECURSIVE ConnPollNext(_, _, _)
ConnPollNext(conn, rx, rd) ==
    IF rx = <<>>
    THEN [conn |-> conn, rx |-> rx, kind |-> ReadEmpty(conn, rd), item |-> <<>>]
    ELSE LET filled == [conn EXCEPT !.buffer = conn.buffer \o Head(rx)]
             c1 == ReadLen(filled)
         IN  IF filled.pending = NoneVal /\ c1.pending = NoneVal
             THEN ConnPollNext(c1, Tail(rx), rd)
             ELSE IF Len(c1.buffer) >= c1.pending
                  THEN [conn |-> [c1 EXCEPT !.buffer = Drop(c1.buffer, c1.pending),
                                            !.pending = PendingAfterYield(c1.pending)],
                        rx |-> Tail(rx), kind |-> "item",
                        item |-> Take(c1.buffer, c1.pending)]
                  ELSE ConnPollNext(c1, Tail(rx), rd)

-----------------------------------------------------------------------------
(* Connection: the sink over one socket (connection.rs) *)

\* The write side of a socket during one poll is the script ws of the results its
\* poll_write calls return, in order: n >= 0 is Ready(Ok(n')), with n' the
\* smaller of n and the length offered, WriteErr is Ready(Err); once the script
\* is used up the calls return Pending.
WriteErr == -1

\* TcpStream::poll_write of buf: result and bytes put on the wire
poll_write(buf, ws) ==
    IF ws = <<>> THEN [kind |-> "pending", n |-> 0, ws |-> ws, out |-> <<>>]
    ELSE IF Head(ws) = WriteErr
    THEN [kind |-> "err", n |-> 0, ws |-> Tail(ws), out |-> <<>>]
    ELSE [kind |-> "ok", n |-> Min(Head(ws), Len(buf)), ws |-> Tail(ws),
          out |-> Take(buf, Head(ws))]

\* Connection::start_send
ConnStartSend(conn, item) ==
    [conn EXCEPT !.write_pending =
        [tag |-> "PendingLen", remaining_len |-> 4, data |-> item]]

\* std::mem::replace(this.write_pending, WriteState::None): what is left in the
\* Connection while the loop body holds the state it took out
TakenWriteState(conn) == [conn EXCEPT !.write_pending = WriteNone]

\* the bytes handed to poll_write while the length is pending
LenBuffer(remaining_len, data) == to_le_bytes(Len(data))

\* Connection::poll_ready / poll_flush / poll_close share one loop; they differ
\* in what they return with nothing pending, which for a TCP socket is Ready(Ok).
\* remaining_len - x is a usize subtraction: with overflow checks it panics when
\* x > remaining_len, without them it wraps (kept here as the negative integer
\* congruent to the wrapped value, which is never 0 again within the bounds).
RECURSIVE ConnPollReady(_, _, _)

\* what a poll returns with the state taken out of the Connection
Returned(conn, w, out, kind) ==
    [conn |-> TakenWriteState(conn), ws |-> w.ws, out |-> out, kind |-> kind]

\* the bytes of this write go out before those of the rest of the loop
PrependOut(out, r) == [r EXCEPT !.out = out \o r.out]

\* the state put back after a write of the length
LenState(new_len, data) ==
    IF new_len = 0
    THEN [tag |-> "Pending", data |-> data]
    ELSE [tag |-> "PendingLen", remaining_len |-> new_len, data |-> data]

\* WriteState::PendingLen after poll_write returned w
AfterLenWrite(conn, st, w, checks) ==
    IF w.kind # "ok" THEN Returned(conn, w, <<>>, w.kind)
    ELSE IF checks /\ st.remaining_len - w.n < 0 /\ st.remaining_len >= 0
    THEN Returned(conn, w, w.out, "panic")
    ELSE PrependOut(w.out,
            ConnPollReady([conn EXCEPT !.write_pending =
                              LenState(st.remaining_len - w.n, st.data)],
                          w.ws, checks))

\* WriteState::Pending after poll_write returned w
AfterDataWrite(conn, st, w, checks) ==
    IF w.kind # "ok" THEN Returned(conn, w, <<>>, w.kind)
    ELSE IF w.n = Len(st.data) THEN Returned(conn, w, w.out, "ok")
    ELSE PrependOut(w.out,
            ConnPollReady([conn EXCEPT !.write_pending =
                              [tag |-> "Pending", data |-> Drop(st.data, w.n)]],
                          w.ws, checks))

ConnPollReady(conn, ws, checks) ==
    CASE conn.write_pending.tag = "None" ->
               [conn |-> TakenWriteState(conn), ws |-> ws, out |-> <<>>, kind |-> "ok"]
      [] conn.write_pending.tag = "PendingLen" ->
               AfterLenWrite(conn, conn.write_pending,
                             poll_write(LenBuffer(conn.write_pending.remaining_len,
                                                  conn.write_pending.data), ws),
                             checks)
      [] conn.write_pending.tag = "Pending" ->
               AfterDataWrite(conn, conn.write_pending,
                              poll_write(conn.write_pending.data, ws), checks)

-----------------------------------------------------------------------------
(* ConnectionPool (connection/pool.rs) over the Connections of connection.rs *)

\* Vec::swap_remove at the 0-based index i
swap_remove(v, i) ==
    LET n == Len(v)
    IN  [k \in 1..(n - 1) |-> IF k = i + 1 THEN v[n] ELSE v[k]]

\* ConnectionPool.send = None
SendNone == [tag |-> "None"]

\* ConnectionPool.send = Some((idx, data))
SendSome(idx, data) == [tag |-> "Some", idx |-> idx, data |-> data]

\* the cursor of the send slot after the connection at idx was handled
NextCursor(send) ==
    IF send.idx = 0 THEN SendNone ELSE SendSome(send.idx - 1, send.data)

\* The pool operators work on a record W of the pool and the sockets it touches:
\*   connections, send   the pool's fields
\*   backlog             sockets waiting in the listener's accept queue
\*   ws                  per socket, the results of its poll_write calls
\*   rs                  per socket, [rx, rd]: the reads it returns, what follows
\*   nodelay             per socket, set_nodelay succeeds
\*   checks              the build has overflow checks
\*   wire                per socket, the bytes written to it so far
\*   stream              per socket, the bytes written to it since it connected
\*   kind, item          result of the operation
\*   accepted, failed    sockets the operation added to, removed from the pool
\*   handed              sockets whose connection got start_send of the payload

\* what poll_flush_out does with the connections when the one at idx failed
FlushOutRemoves(conns, idx) == swap_remove(conns, idx)

\* W after the connection c at the 0-based index i was polled with result r
Polled(W, i, c, r) ==
    [W EXCEPT !.connections[i + 1] = r.conn,
              !.ws[c.tcp] = r.ws,
              !.wire[c.tcp] = @ \o r.out,
              !.stream[c.tcp] = @ \o r.out]

RECURSIVE poll_flush_out(_)

\* one turn that returns Ready after the first connection took the payload
FlushOutTurn_OneTurn(W, c, r, W1) ==
    CASE r.kind = "err" ->
            poll_flush_out([W1 EXCEPT
                !.connections = FlushOutRemoves(W1.connections, W.send.idx),
                !.failed = @ \cup {c.tcp},
                !.send = NextCursor(W.send)])
      [] r.kind = "ok" ->
            [W1 EXCEPT
                !.connections[W.send.idx + 1] = ConnStartSend(r.conn, W.send.data),
                !.handed = Append(@, c.tcp),
                !.send = NextCursor(W.send),
                !.kind = "ok"]
      [] r.kind = "pending" -> [W1 EXCEPT !.kind = "pending"]
      [] OTHER -> [W1 EXCEPT !.kind = "panic"]

\* one turn of the loop of poll_flush_out: poll_ready of the connection c at
\* the cursor returned r, W1 is the pool after that poll
FlushOutTurn(W, c, r, W1) ==
    CASE r.kind = "err" ->
            poll_flush_out([W1 EXCEPT
                !.connections = FlushOutRemoves(W1.connections, W.send.idx),
                !.failed = @ \cup {c.tcp},
                !.send = NextCursor(W.send)])
      [] r.kind = "ok" ->
            poll_flush_out([W1 EXCEPT
                !.connections[W.send.idx + 1] = ConnStartSend(r.conn, W.send.data),
                !.handed = Append(@, c.tcp),
                !.send = NextCursor(W.send)])
      [] r.kind = "pending" -> [W1 EXCEPT !.kind = "pending"]
      [] OTHER -> [W1 EXCEPT !.kind = "panic"]

FlushOutPolled(W, c, r) == FlushOutTurn(W, c, r, Polled(W, W.send.idx, c, r))

FlushOutAt(W, c) == FlushOutPolled(W, c, ConnPollReady(c, W.ws[c.tcp], W.checks))

\* ConnectionPool::poll_flush_out
poll_flush_out(W) ==
    IF W.send.tag = "None" THEN [W EXCEPT !.kind = "ok"]
    ELSE IF W.send.idx + 1 > Len(W.connections)
    THEN [W EXCEPT !.kind = "panic"]
    ELSE FlushOutAt(W, W.connections[W.send.idx + 1])

\* <ConnectionPool as Sink>::poll_ready
pool_poll_ready(W) == poll_flush_out(W)

\* <ConnectionPool as Sink>::start_send; over records a call that found the
\* send slot occupied
pool_start_send(W, item) ==
    IF W.connections # <<>>
    THEN [W EXCEPT !.send = SendSome(Len(W.connections) - 1, item), !.kind = "ok",
                   !.handed = <<>>, !.over = W.over \/ W.send.tag = "Some"]
    ELSE [W EXCEPT !.kind = "ok", !.handed = <<>>,
                   !.over = W.over \/ W.send.tag = "Some"]

\* a removal that drops the last connection whichever one failed
FlushErrorRemovesLast(conns, c) == SubSeq(conns, 1, Len(conns) - 1)

\* what the flush loop does with the connections when the one at c failed
FlushErrorRemoves(conns, c) == swap_remove(conns, c)

RECURSIVE FlushConnections(_, _)

\* one turn of the loop of poll_flush: poll_flush of the connection cn at c
\* returned r, W1 is the pool after that poll
FlushTurn(W1, c, cn, r) ==
    CASE r.kind = "ok" -> FlushConnections(W1, c - 1)
      [] r.kind = "pending" -> [W1 EXCEPT !.kind = "pending"]
      [] r.kind = "err" ->
            FlushConnections(
                [W1 EXCEPT !.connections = FlushErrorRemoves(W1.connections, c),
                           !.failed = @ \cup {cn.tcp}],
                c - 1)
      [] OTHER -> [W1 EXCEPT !.kind = "panic"]

FlushPolled(W, c, cn, r) == FlushTurn(Polled(W, c, cn, r), c, cn, r)

FlushAt(W, c, cn) == FlushPolled(W, c, cn, ConnPollReady(cn, W.ws[cn.tcp], W.checks))

\* the loop of poll_flush over the connections, from the 0-based index c down
FlushConnections(W, c) ==
    IF c < 0 THEN [W EXCEPT !.kind = "ok"] ELSE FlushAt(W, c, W.connections[c + 1])

\* poll_flush once poll_flush_out has returned W1
FlushAfterOut(W1) ==
    IF W1.kind # "ok" THEN W1 ELSE FlushConnections(W1, Len(W1.connections) - 1)

\* <ConnectionPool as Sink>::poll_flush
pool_poll_flush(W) == FlushAfterOut(poll_flush_out(W))

\* what the scan of poll_next does with the connections when the one at i ended
ScanRemoves(conns, i) == swap_remove(conns, i)

RECURSIVE ScanConnections(_, _)

\* one turn of the scan: poll_next of the connection cn at i returned r, W1 is
\* the pool after that poll
ScanTurn(W1, i, cn, r) ==
    CASE r.kind = "item" -> [W1 EXCEPT !.kind = "item", !.item = r.item]
      [] r.kind = "pending" -> ScanConnections(W1, i - 1)
      [] OTHER ->
            ScanConnections(
                [W1 EXCEPT !.connections = ScanRemoves(W1.connections, i),
                           !.failed = @ \cup {cn.tcp}],
                i - 1)

ScanPolled(W, i, cn, r) ==
    ScanTurn([W EXCEPT !.connections[i + 1] = r.conn, !.rs[cn.tcp].rx = r.rx], i, cn, r)

ScanAt(W, i, cn) == ScanPolled(W, i, cn, ConnPollNext(cn, W.rs[cn.tcp].rx, W.rs[cn.tcp].rd))

\* the scan of poll_next over the connections, from the 0-based index i down
ScanConnections(W, i) ==
    IF i < 0 THEN [W EXCEPT !.kind = "pending"] ELSE ScanAt(W, i, W.connections[i + 1])

\* <ConnectionPool as Stream>::poll_next: accept everything waiting, then scan
RECURSIVE pool_poll_next(_)
pool_poll_next(W) ==
    IF W.backlog # <<>>
    THEN IF W.nodelay[Head(W.backlog)]
         THEN pool_poll_next([W EXCEPT
                  !.backlog = Tail(W.backlog),
                  !.connections = Append(W.connections, NewConnection(Head(W.backlog))),
                  !.accepted = @ \cup {Head(W.backlog)}])
         ELSE pool_poll_next([W EXCEPT !.backlog = Tail(W.backlog)])
    ELSE ScanConnections(W, Len(W.connections) - 1)

-----------------------------------------------------------------------------
(* Specification of one Connection read by a consumer *)

\* payloads a peer may write
Payloads == { <<>>, <<7>>, <<8, 9>> }

\* the sink side of a Connection nothing was sent on
NoSink(checks) == [items |-> <<>>, out |-> <<>>, op |-> "new", kind |-> "ok", checks |-> checks]

\* the Connection group before anything happened
ConnIdle ==
    /\ c_xs = <<>>
    /\ c_arrived = 0
    /\ c_rx = <<>>
    /\ c_rd = "open"
    /\ c_conn = NewConnection(0)
    /\ c_yielded = <<>>
    /\ c_last = "init"
    /\ c_sink = NoSink(FALSE)

ConnInit ==
    /\ c_xs \in SeqsUpTo(Payloads, MaxMsgs)
    /\ c_arrived = 0
    /\ c_rx = <<>>
    /\ c_rd = "open"
    /\ c_conn = NewConnection(0)
    /\ c_yielded = <<>>
    /\ c_last = "init"
    /\ c_sink = NoSink(FALSE)

\* the next k bytes of the peer's stream become one socket read
ConnArrive ==
    /\ c_rd = "open"
    /\ Len(c_rx) < MaxRx
    /\ \E k \in 1..(Len(EnvelopeStream(c_xs)) - c_arrived) :
         /\ c_rx' = Append(c_rx, SubSeq(EnvelopeStream(c_xs), c_arrived + 1, c_arrived + k))
         /\ c_arrived' = c_arrived + k
    /\ UNCHANGED <<c_xs, c_rd, c_conn, c_yielded, c_last, c_sink>>
    /\ ConnFrame

\* the peer closes its side, or the socket fails
ConnPeerEnd ==
    /\ c_rd = "open"
    /\ c_rd' \in {"eof", "err"}
    /\ UNCHANGED <<c_xs, c_arrived, c_rx, c_conn, c_yielded, c_last, c_sink>>
    /\ ConnFrame

\* the consumer polls the stream once
ConnPoll ==
    /\ c_last \notin {"none"}
    /\ LET r == ConnPollNext(c_conn, c_rx, c_rd)
       IN  /\ c_conn' = r.conn
           /\ c_rx' = r.rx
           /\ c_last' = r.kind
           /\ c_yielded' = IF r.kind = "item" THEN Append(c_yielded, r.item) ELSE c_yielded
    /\ UNCHANGED <<c_xs, c_arrived, c_rd, c_sink>>
    /\ ConnFrame

ConnNext == ConnArrive \/ ConnPeerEnd \/ ConnPoll

-----------------------------------------------------------------------------
(* Specification of one Connection driven through its Sink trait by a      *)
(* caller that keeps the Sink contract, over a socket that takes any part  *)
(* of what it is offered, returns Pending, or fails                        *)

\* scripts of write results of the socket during one poll
ConnWriteScripts ==
    LET oks == SeqsUpTo({1, 2, 4}, MaxWq)
    IN  oks \cup { Append(w, WriteErr) : w \in oks }

\* payloads handed to the sink
SinkItems == { <<7>>, <<8, 9>> }

\* Connection::new, in a build with or without overflow checks
WriteInit ==
    /\ c_xs = <<>>
    /\ c_arrived = 0
    /\ c_rx = <<>>
    /\ c_rd = "open"
    /\ c_conn = NewConnection(0)
    /\ c_yielded = <<>>
    /\ c_last = "init"
    /\ c_sink \in { NoSink(checks) : checks \in BOOLEAN }

\* the sink has neither failed nor panicked
SinkUsable == c_sink.kind \in {"ok", "pending"}

\* c_sink after a poll of the write loop returned r
AfterWritePoll(op, r) ==
    [c_sink EXCEPT !.out = @ \o r.out, !.op = op, !.kind = r.kind]

\* <Connection as Sink>::poll_ready polled once
WritePollReady ==
    /\ SinkUsable
    /\ \E ws \in ConnWriteScripts :
         LET r == ConnPollReady(c_conn, ws, c_sink.checks)
         IN  /\ c_conn' = r.conn
             /\ c_sink' = AfterWritePoll("ready", r)
    /\ UNCHANGED <<c_xs, c_arrived, c_rx, c_rd, c_yielded, c_last>>
    /\ ConnFrame

\* <Connection as Sink>::start_send, right after poll_ready returned Ready(Ok)
WriteStartSend ==
    /\ c_sink.op = "ready"
    /\ c_sink.kind = "ok"
    /\ Len(c_sink.items) < MaxMsgs
    /\ \E item \in SinkItems :
         /\ c_conn' = ConnStartSend(c_conn, item)
         /\ c_sink' = [c_sink EXCEPT !.items = Append(@, item), !.op = "start_send"]
    /\ UNCHANGED <<c_xs, c_arrived, c_rx, c_rd, c_yielded, c_last>>
    /\ ConnFrame

\* <Connection as Sink>::poll_flush polled once; TcpStream::poll_flush is
\* Ready(Ok)
WritePollFlush ==
    /\ SinkUsable
    /\ \E ws \in ConnWriteScripts :
         LET r == ConnPollReady(c_conn, ws, c_sink.checks)
         IN  /\ c_conn' = r.conn
             /\ c_sink' = AfterWritePoll("flush", r)
    /\ UNCHANGED <<c_xs, c_arrived, c_rx, c_rd, c_yielded, c_last>>
    /\ ConnFrame

WriteNext == WritePollReady \/ WriteStartSend \/ WritePollFlush


-----------------------------------------------------------------------------
(* Specification of the ConnectionPool driven as the hub drives it *)

Socks == 1..MaxPeers

\* the payload of the k-th broadcast: k bytes, different from every other one
BroadcastPayload(k) == [i \in 1..k |-> 10 * k + i]

\* sizes a socket may accept in one write
WriteSizes == {1, 4}

\* scripts of write results of one socket during one poll: up to MaxWq accepted
\* writes, then Pending or an error
WriteScripts ==
    LET oks == SeqsUpTo(WriteSizes, MaxWq)
    IN  oks \cup { Append(w, WriteErr) : w \in oks }

\* scripts of write results of one socket during one poll, the short list: nothing
\* accepted, the length prefix accepted, every write accepted, an error
SinkWriteScripts == { <<>>, <<4>>, <<4, 4>>, <<WriteErr>> }

\* the scripts of a poll of the hub's send: the short list in a run that
\* records the whole stream of every peer
HubWriteScripts == IF p_stream.on THEN SinkWriteScripts ELSE WriteScripts

\* chunks a peer may write to the pool: the length prefix of a 1-byte payload
PeerChunks == { <<1, 0, 0, 0>> }

\* scripts of read results of one socket during one poll
ReadScripts ==
    [rx : SeqsUpTo(PeerChunks, MaxPoolRx), rd : {"open", "eof", "err"}]

\* ConnectionPool::new, no socket yet
PoolIdle ==
    /\ p_connections = <<>>
    /\ p_send = SendNone
    /\ p_backlog = <<>>
    /\ p_used = 0
    /\ p_wire = [t \in Socks |-> <<>>]
    /\ p_failed = {}
    /\ p_nreads = 0
    /\ p_checks = TRUE
    /\ p_phase = "idle"
    /\ p_item = <<>>
    /\ p_last = [op |-> "new", kind |-> "ok", item |-> <<>>, over |-> FALSE]
    /\ p_log = <<>>
    /\ p_joined = [t \in Socks |-> NoneVal]
    /\ p_handed = <<>>
    /\ p_stream = [on |-> FALSE, bytes |-> [t \in Socks |-> <<>>]]

\* the pool in a run that records the stream of every peer
PeersInit ==
    /\ p_connections = <<>>
    /\ p_send = SendNone
    /\ p_backlog = <<>>
    /\ p_used = 0
    /\ p_wire = [t \in Socks |-> <<>>]
    /\ p_failed = {}
    /\ p_nreads = 0
    /\ p_checks \in BOOLEAN
    /\ p_phase = "idle"
    /\ p_item = <<>>
    /\ p_last = [op |-> "new", kind |-> "ok", item |-> <<>>, over |-> FALSE]
    /\ p_log = <<>>
    /\ p_joined = [t \in Socks |-> NoneVal]
    /\ p_handed = <<>>
    /\ p_stream = [on |-> TRUE, bytes |-> [t \in Socks |-> <<>>]]

PoolInit ==
    /\ p_connections = <<>>
    /\ p_send = SendNone
    /\ p_backlog = <<>>
    /\ p_used = 0
    /\ p_wire = [t \in Socks |-> <<>>]
    /\ p_failed = {}
    /\ p_nreads = 0
    /\ p_checks \in BOOLEAN
    /\ p_phase = "idle"
    /\ p_item = <<>>
    /\ p_last = [op |-> "new", kind |-> "ok", item |-> <<>>, over |-> FALSE]
    /\ p_log = <<>>
    /\ p_joined = [t \in Socks |-> NoneVal]
    /\ p_handed = <<>>
    /\ p_stream = [on |-> FALSE, bytes |-> [t \in Socks |-> <<>>]]


InPool(t) == \E i \in 1..Len(p_connections) : p_connections[i].tcp = t

\* scripts only for the sockets of the pool
OnlyInPool(f, empty) == \A t \in Socks : InPool(t) \/ f[t] = empty

\* the pool and its sockets as the record the operators work on
PoolW(ws, rs, nodelay) ==
    [connections |-> p_connections, send |-> p_send, backlog |-> p_backlog,
     ws |-> ws, rs |-> rs, nodelay |-> nodelay, checks |-> p_checks, wire |-> p_wire,
     kind |-> "ok", item |-> <<>>, accepted |-> {}, failed |-> {},
     fed |-> FALSE, over |-> FALSE, phase |-> p_phase, handed |-> p_handed,
     stream |-> p_stream.bytes]

NoReads == [t \in Socks |-> [rx |-> <<>>, rd |-> "open"]]

NoWrites == [t \in Socks |-> <<>>]

\* writes W back to the variables of the pool
PoolCommit(W, op) ==
    /\ p_connections' = W.connections
    /\ p_send' = W.send
    /\ p_backlog' = W.backlog
    /\ p_wire' = W.wire
    /\ p_joined' = [t \in Socks |-> IF t \in W.accepted THEN Len(p_log) ELSE p_joined[t]]
    /\ p_handed' = W.handed
    /\ p_stream' = IF p_stream.on THEN [p_stream EXCEPT !.bytes = W.stream] ELSE p_stream
    /\ p_failed' = p_failed \cup W.failed
    /\ p_last' = [op |-> op, kind |-> W.kind, item |-> W.item, over |-> W.over]

\* connections.send(item).await followed by connections.flush().await, from the
\* step `phase` on, as far as it gets without a Pending:
\*   "send"        Feed: poll_ready, then start_send
\*   "send_flush"  the flush that ends send
\*   "flush"       flush
\* and connections.send(data).await of the format relay, which no flush follows:
\*   "relay_send"  Feed: poll_ready, then start_send
\*   "relay_flush" the flush that ends send
RECURSIVE RunSend(_, _, _)
\* how a poll that did not complete leaves the caller
Stopped(W1, phase) ==
    [W1 EXCEPT !.phase = IF W1.kind = "panic" THEN "panicked" ELSE phase]

\* send after poll_ready returned W1
AfterReady(W1, phase, item) ==
    IF W1.kind = "ok"
    THEN RunSend([pool_start_send(W1, item) EXCEPT !.fed = TRUE],
                 IF phase = "send" THEN "send_flush" ELSE "relay_flush", item)
    ELSE Stopped(W1, phase)

\* send or flush after poll_flush returned W1
AfterFlush(W1, phase, item) ==
    IF W1.kind = "ok"
    THEN IF phase = "send_flush"
         THEN RunSend(W1, "flush", item)
         ELSE [W1 EXCEPT !.phase = "idle"]
    ELSE Stopped(W1, phase)

RunSend(W, phase, item) ==
    CASE phase \in {"send", "relay_send"} -> AfterReady(pool_poll_ready(W), phase, item)
      [] phase \in {"send_flush", "flush", "relay_flush"} ->
            AfterFlush(pool_poll_flush(W), phase, item)

\* the hub broadcasts one payload: the first poll of send (bin/server.rs:223)
PoolSend ==
    /\ p_phase = "idle"
    /\ Len(p_log) < MaxBroadcasts
    /\ \E item \in {BroadcastPayload(Len(p_log) + 1)}, ws \in [Socks -> HubWriteScripts] :
         /\ OnlyInPool(ws, <<>>)
         /\ LET W == RunSend([PoolW(ws, NoReads, [t \in Socks |-> TRUE])
                                   EXCEPT !.wire = NoWrites], "send", item)
            IN  /\ PoolCommit(W, "send")
                /\ p_phase' = W.phase
                /\ p_item' = item
                /\ p_log' = IF W.fed THEN Append(p_log, item) ELSE p_log
    /\ UNCHANGED <<p_used, p_nreads, p_checks>>
    /\ PoolFrame

\* the format relay broadcasts one message as JSON: the first poll of send
\* (bin/format.rs:86)
RelaySend ==
    /\ p_phase = "idle"
    /\ Len(p_log) < MaxBroadcasts
    /\ \E item \in {BroadcastPayload(Len(p_log) + 1)}, ws \in [Socks -> HubWriteScripts] :
         /\ OnlyInPool(ws, <<>>)
         /\ LET W == RunSend([PoolW(ws, NoReads, [t \in Socks |-> TRUE])
                                   EXCEPT !.wire = NoWrites], "relay_send", item)
            IN  /\ PoolCommit(W, "send")
                /\ p_phase' = W.phase
                /\ p_item' = item
                /\ p_log' = IF W.fed THEN Append(p_log, item) ELSE p_log
    /\ UNCHANGED <<p_used, p_nreads, p_checks>>
    /\ PoolFrame

\* a later poll of the pending send or flush
PoolResume ==
    /\ p_phase \in {"send", "send_flush", "flush", "relay_send", "relay_flush"}
    /\ \E ws \in [Socks -> HubWriteScripts] :
         /\ OnlyInPool(ws, <<>>)
         /\ LET W == RunSend(PoolW(ws, NoReads, [t \in Socks |-> TRUE]), p_phase, p_item)
            IN  /\ PoolCommit(W, "send")
                /\ p_phase' = W.phase
                /\ p_log' = IF W.fed THEN Append(p_log, p_item) ELSE p_log
    /\ UNCHANGED <<p_used, p_nreads, p_checks, p_item>>
    /\ PoolFrame

\* the hub polls connections.next() in its select (bin/server.rs:200)
PoolPollNext ==
    /\ p_phase = "idle"
    /\ \E rs \in [Socks -> ReadScripts], nodelay \in [Socks -> BOOLEAN] :
         /\ \A t \in Socks : InPool(t) \/ t \in Range(p_backlog) \/ rs[t] = NoReads[t]
         /\ \A t \in Socks : t \in Range(p_backlog) \/ nodelay[t]
         /\ p_nreads = MaxPeerReads => \A t \in Socks : rs[t].rx = <<>>
         /\ LET W == pool_poll_next(PoolW(NoWrites, rs, nodelay))
                n == Cardinality({t \in Socks : Len(rs[t].rx) > Len(W.rs[t].rx)})
            IN  /\ p_nreads + n <= MaxPeerReads
                /\ p_nreads' = p_nreads + n
                /\ PoolCommit(W, "next")
    /\ UNCHANGED <<p_used, p_checks, p_phase, p_item, p_log>>
    /\ PoolFrame

\* a peer connects to the listener
PeerConnect ==
    /\ p_phase # "panicked"
    /\ p_used < MaxPeers
    /\ p_backlog' = Append(p_backlog, p_used + 1)
    /\ p_used' = p_used + 1
    /\ UNCHANGED <<p_connections, p_send, p_wire, p_failed, p_nreads, p_checks, p_phase, p_item,
                   p_last, p_log, p_joined, p_handed, p_stream>>
    /\ PoolFrame

PoolNext == PoolSend \/ PoolResume \/ PoolPollNext \/ PeerConnect

\* the pool under both of its callers, the hub loop and the format relay
BroadcastNext == PoolSend \/ RelaySend \/ PoolResume \/ PoolPollNext \/ PeerConnect

-----------------------------------------------------------------------------
(* Specification of the ConnectionPool driven through its Sink and Stream *)
(* traits by any caller that keeps the Sink contract (start_send only      *)
(* after poll_ready returned Ready(Ok)), as SinkExt::feed and StreamExt::next *)
(* do when they are polled from one select loop                             *)

\* <ConnectionPool as Sink>::poll_ready polled once
SinkPollReady ==
    /\ p_phase = "idle"
    /\ \E ws \in [Socks -> SinkWriteScripts] :
         /\ OnlyInPool(ws, <<>>)
         /\ LET W == pool_poll_ready(PoolW(ws, NoReads, [t \in Socks |-> TRUE]))
            IN  /\ PoolCommit(W, "ready")
                /\ p_phase' = IF W.kind = "panic" THEN "panicked" ELSE "idle"
    /\ UNCHANGED <<p_used, p_nreads, p_checks, p_item, p_log>>
    /\ PoolFrame

\* <ConnectionPool as Sink>::start_send, right after poll_ready returned Ready(Ok)
SinkStartSend ==
    /\ p_phase = "idle"
    /\ p_last.op = "ready"
    /\ p_last.kind = "ok"
    /\ Len(p_log) < MaxBroadcasts
    /\ \E item \in {BroadcastPayload(Len(p_log) + 1)} :
         /\ PoolCommit(pool_start_send([PoolW(NoWrites, NoReads, [t \in Socks |-> TRUE])
                                           EXCEPT !.wire = NoWrites], item),
                       "start_send")
         /\ p_item' = item
         /\ p_log' = Append(p_log, item)
    /\ UNCHANGED <<p_used, p_nreads, p_checks, p_phase>>
    /\ PoolFrame

\* <ConnectionPool as Sink>::poll_flush polled once
SinkPollFlush ==
    /\ p_phase = "idle"
    /\ \E ws \in [Socks -> SinkWriteScripts] :
         /\ OnlyInPool(ws, <<>>)
         /\ LET W == pool_poll_flush(PoolW(ws, NoReads, [t \in Socks |-> TRUE]))
            IN  /\ PoolCommit(W, "flush")
                /\ p_phase' = IF W.kind = "panic" THEN "panicked" ELSE "idle"
    /\ UNCHANGED <<p_used, p_nreads, p_checks, p_item, p_log>>
    /\ PoolFrame

SinkNext == SinkPollReady \/ SinkStartSend \/ SinkPollFlush \/ PoolPollNext \/ PeerConnect

-----------------------------------------------------------------------------
(* Message framing probes (msg/ubx.rs, msg/nmea.rs, msg/server.rs, msg/mod.rs) *)

UBX_SYNC1 == 181
UBX_SYNC2 == 98
RTCM_PREAMBLE == 211
NMEA_PREAMBLE == 36
CR == 13
LF == 10
PREFIX == 37

\* Option<usize>
UsageNone == [tag |-> "None"]
UsageSome(n) == [tag |-> "Some", len |-> n]

Ubx_contains_prefix(b) == Len(b) >= 2 /\ b[1] = UBX_SYNC1 /\ b[2] = UBX_SYNC2

\* the u16 read from b[4..] is the little-endian payload length
Ubx_message_usage(b) ==
    IF ~Ubx_contains_prefix(b) THEN UsageNone
    ELSE IF Len(b) < 6 THEN UsageNone
    ELSE LET len == b[5] + 256 * b[6]
         IN  IF Len(b) < len + 8 THEN UsageNone ELSE UsageSome(len + 8)

Rtcm_contains_prefix(b) == Len(b) >= 1 /\ b[1] = RTCM_PREAMBLE

\* the payload length is the low two bits of byte 1 and all of byte 2
Rtcm_message_usage(b) ==
    IF ~Rtcm_contains_prefix(b) THEN UsageNone
    ELSE IF Len(b) < 3 THEN UsageNone
    ELSE LET size == ((b[2] % 4) * 256 + b[3]) + 6
         IN  IF Len(b) < size THEN UsageNone ELSE UsageSome(size)

Nmea_contains_prefix(b) == Len(b) >= 1 /\ b[1] = NMEA_PREAMBLE

\* the scan of message_usage from position i: the byte after a CR is taken
\* from the same iterator, so it is not looked at again
RECURSIVE NmeaScan(_, _)
NmeaScan(b, i) ==
    IF i > Len(b) THEN UsageNone
    ELSE IF b[i] = CR
         THEN IF i + 1 <= Len(b) /\ b[i + 1] = LF
              THEN UsageSome(i + 1)
              ELSE NmeaScan(b, i + 2)
         ELSE NmeaScan(b, i + 1)

Nmea_message_usage(b) == IF ~Nmea_contains_prefix(b) THEN UsageNone ELSE NmeaScan(b, 1)

Server_contains_prefix(b) == Len(b) >= 1 /\ b[1] = PREFIX

\* a message_usage that does not look at the length of b
Server_message_usage_NoLen(b) ==
    IF ~Server_contains_prefix(b) THEN UsageNone ELSE UsageSome(2)

Server_message_usage(b) ==
    IF ~Server_contains_prefix(b) THEN UsageNone
    ELSE IF Len(b) < 2 THEN UsageNone
    ELSE UsageSome(2)

\* a parse that takes every byte after the tag for a ServerMsg
Server_parse_read_AnyMsg(x) ==
    IF Len(x) < 2 \/ x[1] # PREFIX THEN "Err"
    ELSE IF x[2] = 1 THEN "Quit"
    ELSE "ResetPort"

\* Server::parse_read: the tag, then the ServerMsg byte; what follows is left over
Server_parse_read(x) ==
    IF Len(x) < 1 \/ x[1] # PREFIX THEN "Err"
    ELSE IF Len(x) < 2 THEN "Err"
    ELSE IF x[2] = 0 THEN "ResetPort"
    ELSE IF x[2] = 1 THEN "Quit"
    ELSE "Err"

GpsMsg_contains_prefix(b) ==
    \/ Ubx_contains_prefix(b)
    \/ Rtcm_contains_prefix(b)
    \/ Nmea_contains_prefix(b)
    \/ Server_contains_prefix(b)

OrElse(a, b) == IF a.tag = "Some" THEN a ELSE b

GpsMsg_message_usage(b) ==
    OrElse(Ubx_message_usage(b),
    OrElse(Rtcm_message_usage(b),
    OrElse(Nmea_message_usage(b),
           Server_message_usage(b))))

-----------------------------------------------------------------------------
(* The hub loop (bin/server.rs) *)

\* the while loop of find_message from idx
RECURSIVE FindFrom(_, _)
FindFrom(b, idx) ==
    IF Len(b) > idx
    THEN IF GpsMsg_contains_prefix(Drop(b, idx)) THEN Drop(b, idx) ELSE FindFrom(b, idx + 1)
    ELSE <<>>

find_message(b) ==
    IF Len(b) < 2 THEN b
    ELSE IF GpsMsg_contains_prefix(b) THEN b
    ELSE FindFrom(b, 1)

\* the while-let loop of the serial arm: split off, forward, resync
RECURSIVE SplitLoop(_, _)
SplitLoop(pending, forwarded) ==
    LET u == GpsMsg_message_usage(pending)
    IN  IF u.tag = "Some"
        THEN SplitLoop(find_message(Drop(pending, u.len)), Append(forwarded, Take(pending, u.len)))
        ELSE [pending |-> pending, forwarded |-> forwarded]

\* the serial arm of the select for one read of the port
SerialArm(pending, forwarded, chunk) == SplitLoop(find_message(pending \o chunk), forwarded)

\* what run() does once handle_incomming has handled a Quit frame
AfterQuit == "running"

\* valid messages the receiver may emit
UbxMsg == <<181, 98, 1, 2, 0, 0, 3, 10>>
RtcmMsg == <<211, 0, 0, 71, 234, 75>>
NmeaMsg == <<36, 71, 13, 10>>
QuitMsg == <<37, 1>>
ResetPortMsg == <<37, 0>>
ValidMsgs == { UbxMsg, RtcmMsg, NmeaMsg, QuitMsg }

\* line noise between messages: no byte of it starts a message
Garbage == { <<0>>, <<0, 255>> }

\* a serial stream: messages and noise in any order
Segments == ValidMsgs \cup Garbage
SerialStreams == SeqsUpTo(Segments, MaxSegs) \ {<<>>}

RECURSIVE ValidOf(_)
ValidOf(segs) ==
    IF segs = <<>> THEN <<>>
    ELSE (IF Head(segs) \in ValidMsgs THEN <<Head(segs)>> ELSE <<>>) \o ValidOf(Tail(segs))

\* what peers send to the hub
Sources == {"pool", "outgoing", "bluetooth", "bluetooth_client"}
PeerPayloads == { QuitMsg, ResetPortMsg, RtcmMsg, <<37, 9>> }

\* SerialStream::open of the port at path with baud succeeded
SerialStream(path, baud) == [tag |-> "Some", path |-> path, baud |-> baud]

\* run() after it opened the port given on the command line (server.rs:171-177)
Opened(path, baud) ==
    [port_path |-> path, port_baud |-> baud, port |-> SerialStream(path, baud)]

\* a ResetPort that leaves the port taken and goes on
ResetPort_NoReopen(P, io) ==
    [P |-> [P EXCEPT !.port = [tag |-> "None"]], ret |-> "ok"]

\* the ResetPort arm of handle_incomming: port.take(), sleep, open again with
\* port_path and port_baud; io says whether the open succeeds
ResetPort(P, io) ==
    IF io
    THEN [P |-> [P EXCEPT !.port = SerialStream(P.port_path, P.port_baud)], ret |-> "ok"]
    ELSE [P |-> [P EXCEPT !.port = [tag |-> "None"]], ret |-> "err"]

\* port.as_mut().unwrap() followed by a read or a write; io says whether
\* that succeeds
PortIo(P, io) ==
    IF P.port.tag = "None" THEN "panic" ELSE IF io THEN "ok" ELSE "err"

HubIdle ==
    /\ h_stream = <<>>
    /\ h_expected = <<>>
    /\ h_pending_read_bytes = <<>>
    /\ h_forwarded = <<>>
    /\ h_loop = "running"
    /\ h_quit = FALSE
    /\ h_last = [src |-> "none", msg |-> <<>>]
    /\ h_written = <<>>
    /\ h_port = Opened("/dev/ttyACM0", 9600)

HubInit ==
    /\ \E segs \in SerialStreams :
         /\ h_stream = Concat(segs)
         /\ h_expected = ValidOf(segs)
    /\ h_pending_read_bytes = <<>>
    /\ h_forwarded = <<>>
    /\ h_loop = "running"
    /\ h_quit = FALSE
    /\ h_last = [src |-> "none", msg |-> <<>>]
    /\ h_written = <<>>
    /\ h_port = Opened("/dev/ttyACM0", 9600)

\* the device arm: one read of the port returns the next n bytes
HubSerialRead ==
    /\ h_loop = "running"
    /\ PortIo(h_port, TRUE) = "ok"
    /\ \E n \in 1..Len(h_stream) :
         LET r == SerialArm(h_pending_read_bytes, h_forwarded, Take(h_stream, n))
         IN  /\ h_stream' = Drop(h_stream, n)
             /\ h_pending_read_bytes' = r.pending
             /\ h_forwarded' = r.forwarded
    /\ UNCHANGED <<h_expected, h_loop, h_quit, h_last, h_written, h_port>>
    /\ HubFrame

\* the device arm: the read of the port fails, or there is no port to read
HubSerialError ==
    /\ h_loop = "running"
    /\ h_loop' = PortIo(h_port, FALSE)
    /\ UNCHANGED <<h_stream, h_expected, h_pending_read_bytes, h_forwarded, h_quit, h_last,
                   h_written, h_port>>
    /\ HubFrame

\* handle_incomming once Server::parse_read returned m: what becomes of the
\* port and what it returns
handle_incomming(P, m, io) ==
    CASE m = "Quit" -> [P |-> P, ret |-> "ok"]
      [] m = "ResetPort" -> ResetPort(P, io)
      [] OTHER -> [P |-> P, ret |-> PortIo(P, io)]

\* a peer arm: handle_incomming on the payload x from src; io says whether
\* the reopening of the port or the write to it succeeds
HubPeerMessage ==
    /\ h_loop = "running"
    /\ \E src \in Sources, x \in PeerPayloads, io \in BOOLEAN :
         LET m == Server_parse_read(x)
             r == handle_incomming(h_port, m, io)
         IN  /\ h_last' = [src |-> src, msg |-> x]
             /\ h_quit' = (h_quit \/ m = "Quit")
             /\ h_port' = r.P
             /\ h_loop' = IF m = "Quit" THEN AfterQuit
                          ELSE IF r.ret = "ok" THEN "running" ELSE r.ret
             /\ h_written' = IF m = "Err" /\ r.ret = "ok" THEN x ELSE h_written
    /\ UNCHANGED <<h_stream, h_expected, h_pending_read_bytes, h_forwarded>>
    /\ HubFrame

\* a bluetooth arm yields None: run() bails
HubBluetoothClosed ==
    /\ h_loop = "running"
    /\ h_loop' = "err"
    /\ h_last' = [src |-> "bluetooth", msg |-> <<>>]
    /\ UNCHANGED <<h_stream, h_expected, h_pending_read_bytes, h_forwarded, h_quit, h_written,
                   h_port>>
    /\ HubFrame

HubNext == HubSerialRead \/ HubSerialError \/ HubPeerMessage \/ HubBluetoothClosed

-----------------------------------------------------------------------------
(* OutgoingConnection (connection/outgoing.rs) *)

\* the fields of OutgoingConnection and of the socket behind it
OutRec == [state |-> o_state, timer |-> o_timer, connect |-> o_connect, conn |-> o_conn,
           rx |-> o_rx, rd |-> o_rd, arrived |-> o_arrived, yielded |-> o_yielded,
           connected |-> o_connected, address |-> o_address, kind |-> "pending",
           item |-> <<>>, path |-> <<>>]

\* self.connection = Waiting(..) that starts over at once instead
ToWaiting_NoWait(S) ==
    [S EXCEPT !.state = "Start", !.timer = "none", !.connect = "none",
              !.conn = NewConnection(0), !.rx = <<>>, !.rd = "open", !.arrived = 0,
              !.yielded = <<>>]

\* self.connection = Waiting(sleep(0.5 s)): the Connection or the connect
\* future held before is dropped with its socket
ToWaiting(S) ==
    [S EXCEPT !.state = "Waiting", !.timer = "armed", !.connect = "none",
              !.conn = NewConnection(0), !.rx = <<>>, !.rd = "open", !.arrived = 0,
              !.yielded = <<>>]

\* an assignment to self.connection: T is S after it, why the arm that made it
Assign(S, T, why) ==
    [T EXCEPT !.path = Append(S.path, [from |-> S.state, to |-> T.state, why |-> why,
                                       address |-> S.address])]

\* is_terminated
is_terminated == FALSE

\* a poll in Start that connects whether or not there is an address
HasAddressAlways(S) == TRUE

\* this.address.as_ref() is Some
HasAddress(S) == S.address = "Some"

\* poll_next; nodelay says whether set_nodelay succeeds on a new socket
RECURSIVE out_poll_next(_, _)
out_poll_next(S, nodelay) ==
    CASE S.state = "Start" ->
            IF HasAddress(S)
            THEN out_poll_next(Assign(S, [S EXCEPT !.state = "Connecting",
                                                   !.connect = "inflight"], "connect"),
                               nodelay)
            ELSE [S EXCEPT !.kind = "pending"]
      [] S.state = "Waiting" ->
            IF S.timer = "fired"
            THEN out_poll_next(Assign(S, [S EXCEPT !.state = "Start", !.timer = "none"],
                                      "timer"), nodelay)
            ELSE [S EXCEPT !.kind = "pending"]
      [] S.state = "Connecting" ->
            IF S.connect = "ok"
            THEN IF nodelay
                 THEN out_poll_next(Assign(S, [S EXCEPT !.state = "Connected",
                                                        !.connect = "none",
                                                        !.conn = NewConnection(1),
                                                        !.connected = TRUE], "connect ok"),
                                    nodelay)
                 ELSE out_poll_next(Assign(S, ToWaiting(S), "set_nodelay err"), nodelay)
            ELSE IF S.connect = "err"
            THEN out_poll_next(Assign(S, ToWaiting(S), "connect err"), nodelay)
            ELSE [S EXCEPT !.kind = "pending"]
      [] S.state = "Connected" ->
            LET r == ConnPollNext(S.conn, S.rx, S.rd)
            IN  IF r.kind \in {"none", "err"}
                THEN out_poll_next(Assign(S, ToWaiting(S), "read " \o r.kind), nodelay)
                ELSE IF r.kind = "item"
                THEN [S EXCEPT !.conn = r.conn, !.rx = r.rx, !.kind = "item", !.item = r.item,
                               !.yielded = Append(S.yielded, r.item)]
                ELSE [S EXCEPT !.conn = r.conn, !.rx = r.rx, !.kind = "pending"]

\* a try_send_message that stays Connected when the write fails
try_send_message_NoBackoff(S, message, k) ==
    IF S.state = "Connected"
    THEN [S |-> S, ret |-> k >= Len(write_message(message)),
          wrote |-> Take(write_message(message), k),
          err |-> k < Len(write_message(message))]
    ELSE [S |-> S, ret |-> FALSE, wrote |-> <<>>, err |-> FALSE]

\* try_send_message; the socket takes k bytes of the envelope and then fails,
\* or takes all of it
try_send_message(S, message, k) ==
    IF S.state = "Connected"
    THEN IF k < Len(write_message(message))
         THEN [S |-> Assign(S, ToWaiting(S), "write err"), ret |-> FALSE,
               wrote |-> Take(write_message(message), k), err |-> TRUE]
         ELSE [S |-> S, ret |-> TRUE, wrote |-> write_message(message), err |-> FALSE]
    ELSE [S |-> S, ret |-> FALSE, wrote |-> <<>>, err |-> FALSE]

\* no call of try_send_message yet
NoTry == [n |-> 0, msg |-> <<>>, ret |-> FALSE, wrote |-> <<>>, err |-> FALSE]

\* messages the hub offers to the upstream
TryMessages == { <<5>>, <<6, 7>> }

\* where the write of an envelope may fail: at once, after the length, never
WriteCuts(message) == {0, 4, Len(write_message(message))}

\* what the upstream peer writes on each connection it accepts
OutStreams == SeqsUpTo({<<7>>, <<8, 9>>}, MaxOutMsgs) \ {<<>>}

OutIdle ==
    /\ o_reachable = FALSE
    /\ o_state = "Start"
    /\ o_timer = "none"
    /\ o_connect = "none"
    /\ o_conn = NewConnection(0)
    /\ o_xs = <<>>
    /\ o_arrived = 0
    /\ o_rx = <<>>
    /\ o_rd = "open"
    /\ o_yielded = <<>>
    /\ o_last = "init"
    /\ o_faults = 0
    /\ o_connected = FALSE
    /\ o_address = "Some"
    /\ o_try = NoTry
    /\ o_path = <<>>

OutInit ==
    /\ o_reachable \in BOOLEAN
    /\ o_state = "Start"
    /\ o_timer = "none"
    /\ o_connect = "none"
    /\ o_conn = NewConnection(0)
    /\ o_xs \in OutStreams
    /\ o_arrived = 0
    /\ o_rx = <<>>
    /\ o_rd = "open"
    /\ o_yielded = <<>>
    /\ o_last = "init"
    /\ o_faults = 0
    /\ o_connected = FALSE
    /\ o_address = "Some"
    /\ o_try = NoTry
    /\ o_path = <<>>

\* the upstream starts to listen
OutBecomeReachable ==
    /\ ~o_reachable
    /\ o_reachable' = TRUE
    /\ UNCHANGED <<o_state, o_timer, o_connect, o_conn, o_xs, o_arrived, o_rx, o_rd, o_yielded,
                   o_last, o_faults, o_connected, o_address, o_try,
                   o_path>>
    /\ OutFrame

\* the 500 ms of the Sleep elapse
OutTimerFire ==
    /\ o_timer = "armed"
    /\ o_timer' = "fired"
    /\ UNCHANGED <<o_reachable, o_state, o_connect, o_conn, o_xs, o_arrived, o_rx, o_rd,
                   o_yielded, o_last, o_faults, o_connected, o_address, o_try,
                   o_path>>
    /\ OutFrame

\* TcpStream::connect completes
OutConnectResolve ==
    /\ o_connect = "inflight"
    /\ o_connect' = IF o_reachable THEN "ok" ELSE "err"
    /\ UNCHANGED <<o_reachable, o_state, o_timer, o_conn, o_xs, o_arrived, o_rx, o_rd,
                   o_yielded, o_last, o_faults, o_connected, o_address, o_try,
                   o_path>>
    /\ OutFrame

\* a socket to the peer exists
OutSocketLive == o_connect = "ok" \/ o_state = "Connected"

\* the next k bytes of the peer's stream become one socket read
OutPeerSend ==
    /\ OutSocketLive
    /\ o_rd = "open"
    /\ Len(o_rx) < MaxOutRx
    /\ \E k \in 1..(Len(EnvelopeStream(o_xs)) - o_arrived) :
         /\ o_rx' = Append(o_rx, SubSeq(EnvelopeStream(o_xs), o_arrived + 1, o_arrived + k))
         /\ o_arrived' = o_arrived + k
    /\ UNCHANGED <<o_reachable, o_state, o_timer, o_connect, o_conn, o_xs, o_rd, o_yielded,
                   o_last, o_faults, o_connected, o_address, o_try,
                   o_path>>
    /\ OutFrame

\* the peer has written everything and closes, or the socket fails
OutPeerEnd ==
    /\ OutSocketLive
    /\ o_rd = "open"
    /\ o_arrived = Len(EnvelopeStream(o_xs))
    /\ o_rd' \in {"eof", "err"}
    /\ UNCHANGED <<o_reachable, o_state, o_timer, o_connect, o_conn, o_xs, o_arrived, o_rx,
                   o_yielded, o_last, o_faults, o_connected, o_address, o_try,
                   o_path>>
    /\ OutFrame

\* the hub polls the stream once
OutPoll ==
    /\ \E nodelay \in BOOLEAN :
         /\ ~nodelay => (o_faults < MaxFaults /\ o_state = "Connecting" /\ o_connect = "ok")
         /\ LET S == out_poll_next(OutRec, nodelay)
            IN  /\ o_state' = S.state
                /\ o_timer' = S.timer
                /\ o_connect' = S.connect
                /\ o_conn' = S.conn
                /\ o_rx' = S.rx
                /\ o_rd' = S.rd
                /\ o_arrived' = S.arrived
                /\ o_yielded' = S.yielded
                /\ o_connected' = S.connected
                /\ o_last' = S.kind
                /\ o_path' = S.path
         /\ o_faults' = IF nodelay THEN o_faults ELSE o_faults + 1
    /\ UNCHANGED <<o_reachable, o_xs, o_address, o_try>>
    /\ OutFrame

\* the hub offers a message from the serial device (bin/server.rs:214)
OutTrySend ==
    /\ o_try.n < MaxTries
    /\ \E message \in TryMessages :
         \E k \in WriteCuts(message) :
            LET r == try_send_message(OutRec, message, k)
            IN  /\ o_try' = [n |-> o_try.n + 1, msg |-> message, ret |-> r.ret,
                             wrote |-> r.wrote, err |-> r.err]
                /\ o_state' = r.S.state
                /\ o_timer' = r.S.timer
                /\ o_connect' = r.S.connect
                /\ o_conn' = r.S.conn
                /\ o_rx' = r.S.rx
                /\ o_rd' = r.S.rd
                /\ o_arrived' = r.S.arrived
                /\ o_yielded' = r.S.yielded
                /\ o_path' = r.S.path
    /\ UNCHANGED <<o_reachable, o_xs, o_last, o_faults, o_connected, o_address>>
    /\ OutFrame

\* OutgoingConnection::new(None)
OutInitNone ==
    /\ o_reachable \in BOOLEAN
    /\ o_state = "Start"
    /\ o_timer = "none"
    /\ o_connect = "none"
    /\ o_conn = NewConnection(0)
    /\ o_xs \in OutStreams
    /\ o_arrived = 0
    /\ o_rx = <<>>
    /\ o_rd = "open"
    /\ o_yielded = <<>>
    /\ o_last = "init"
    /\ o_faults = 0
    /\ o_connected = FALSE
    /\ o_address = "None"
    /\ o_try = NoTry
    /\ o_path = <<>>

\* what can happen around an OutgoingConnection without an address
ParkNext == OutBecomeReachable \/ OutPoll \/ OutTrySend

OutNext ==
    \/ OutTrySend
    \/ OutBecomeReachable
    \/ OutTimerFire
    \/ OutConnectResolve
    \/ OutPeerSend
    \/ OutPeerEnd
    \/ OutPoll

OutFairness ==
    /\ WF_vars(OutTimerFire)
    /\ WF_vars(OutConnectResolve)
    /\ WF_vars(OutPeerSend)
    /\ WF_vars(OutPoll)

-----------------------------------------------------------------------------
(* UBX-ACK frames (msg/ubx.rs, msg/ubx/ack.rs) *)

ACK_CLASS == 5
ACK_ACK == 1
ACK_NAK == 0
CFG_CLASS == 6
VALSET_ID == 138
VALGET_ID == 139

\* Ubx::checksum: the 8-bit Fletcher sums, starting from (a, b)
RECURSIVE ChecksumFrom(_, _, _)
ChecksumFrom(data, a, b) ==
    IF data = <<>> THEN <<a, b>>
    ELSE LET a1 == (a + Head(data)) % 256
         IN  ChecksumFrom(Tail(data), a1, (b + a1) % 256)

checksum(data) == ChecksumFrom(data, 0, 0)

\* the frame of an ACK-ACK or ACK-NAK as a receiver sends it and as
\* Ubx::parse_read accepts it: id, the length 2, cls_id, msg_id
ack_frame(kind, cls_id, msg_id) ==
    LET body == <<ACK_CLASS, kind, 2, 0, cls_id, msg_id>>
    IN  <<UBX_SYNC1, UBX_SYNC2>> \o body \o checksum(body)

\* GpsMsg::parse_read as far as set and read look at its result: an Ack, a
\* Nak, another message, or an error
Parsed(kind, cls_id, msg_id) == [kind |-> kind, cls_id |-> cls_id, msg_id |-> msg_id]

GpsMsg_parse_read(x) ==
    IF Ubx_contains_prefix(x)
    THEN IF Len(x) < 3 THEN Parsed("Err", 0, 0)
         ELSE IF x[3] # ACK_CLASS THEN Parsed("Other", 0, 0)
         ELSE IF Len(x) < 4 THEN Parsed("Err", 0, 0)
         ELSE IF x[4] \notin {ACK_ACK, ACK_NAK} THEN Parsed("Other", 0, 0)
         ELSE IF Len(x) < 6 THEN Parsed("Err", 0, 0)
         ELSE IF x[5] # 2 \/ x[6] # 0 THEN Parsed("Err", 0, 0)
         ELSE IF Len(x) < 10 THEN Parsed("Err", 0, 0)
         ELSE IF checksum(SubSeq(x, 3, 8)) # <<x[9], x[10]>> THEN Parsed("Err", 0, 0)
         ELSE Parsed(IF x[4] = ACK_ACK THEN "Ack" ELSE "Nak", x[7], x[8])
    ELSE IF GpsMsg_contains_prefix(x) THEN Parsed("Other", 0, 0)
    ELSE Parsed("Err", 0, 0)

-----------------------------------------------------------------------------
(* The TCP configuration client: set of bin/config.rs *)

\* what the ACK or NAK must carry to belong to the VALSET
AckMatchesMsgOnly(m) == m.msg_id = VALSET_ID

AckMatches(m) == m.cls_id = CFG_CLASS /\ m.msg_id = VALSET_ID

\* where set goes when the chunk was refused
AfterNakNextChunk(done, nchunks) == "write"

AfterNak(done, nchunks) == "nak"

\* where set goes when chunk number done + 1 was acknowledged
AfterAck(done, nchunks) == IF done + 1 = nchunks THEN "finished" ELSE "write"

\* what tcp.next() may return while set waits
NoItem == [tag |-> "NoItem"]
Item(bytes) == [tag |-> "Item", bytes |-> bytes]
ReadErr == [tag |-> "ReadErr"]
Closed == [tag |-> "Closed"]

CfgPayloads ==
    { ack_frame(ACK_ACK, CFG_CLASS, VALSET_ID),
      ack_frame(ACK_NAK, CFG_CLASS, VALSET_ID),
      ack_frame(ACK_ACK, CFG_CLASS, VALGET_ID),
      ack_frame(ACK_NAK, CFG_CLASS, VALGET_ID),
      ack_frame(ACK_ACK, 1, VALSET_ID),
      ack_frame(ACK_NAK, 1, VALSET_ID),
      <<181, 98, 5, 1, 2, 0, 6, 138, 0, 0>>,
      Take(ack_frame(ACK_ACK, CFG_CLASS, VALSET_ID), 8),
      UbxMsg,
      NmeaMsg,
      <<0>> }

CfgInbound == { Item(b) : b \in CfgPayloads } \cup { ReadErr, Closed }

\* keys.chunks(64) hands out all of the list at once
chunks_Whole(keys, n) == IF keys = <<>> THEN <<>> ELSE <<keys>>

\* keys.chunks(n): the slices of n elements in order, the last one shorter
\* when n does not divide the length
chunks(keys, n) ==
    [k \in 1..((Len(keys) + n - 1) \div n) |->
        SubSeq(keys, (k - 1) * n + 1, Min(k * n, Len(keys)))]

\* the size of a chunk
CHUNK == 64

\* sizes of the configuration file: empty, one value, a full chunk, one more,
\* MaxChunks full chunks
KeyCounts == {0, 1, CHUNK, CHUNK + 1, MaxChunks * CHUNK}

\* a configuration file of n values, each different from the others
KeyFile(n) == [file |-> [i \in 1..n |-> i], sent |-> <<>>, acks |-> 0]

CfgIdle ==
    /\ g_nchunks = 1
    /\ g_done = 0
    /\ g_pc = "write"
    /\ g_sent = 0
    /\ g_last = NoItem
    /\ g_nak = FALSE
    /\ g_keys = KeyFile(1)

CfgInit ==
    /\ g_keys \in { KeyFile(n) : n \in KeyCounts }
    /\ g_nchunks = Len(chunks(g_keys.file, CHUNK))
    /\ g_done = 0
    /\ g_pc = IF g_nchunks = 0 THEN "finished" ELSE "write"
    /\ g_sent = 0
    /\ g_last = NoItem
    /\ g_nak = FALSE

\* tcp.write_message(&bytes) of the next chunk
CfgWrite ==
    /\ g_pc = "write"
    /\ \E ok \in BOOLEAN :
         /\ g_pc' = IF ok THEN "wait" ELSE "failed"
         /\ g_sent' = IF ok THEN g_sent + 1 ELSE g_sent
         /\ g_keys' = IF ok
                      THEN [g_keys EXCEPT
                               !.sent = Append(@, chunks(g_keys.file, CHUNK)[g_done + 1])]
                      ELSE g_keys
    /\ g_last' = NoItem
    /\ UNCHANGED <<g_nchunks, g_done, g_nak>>
    /\ CfgFrame

\* one turn of the waiting loop: tcp.next() returns r
CfgRecv ==
    /\ g_pc = "wait"
    /\ \E r \in CfgInbound :
         /\ g_last' = r
         /\ g_keys' = IF r = Item(ack_frame(ACK_ACK, CFG_CLASS, VALSET_ID))
                      THEN [g_keys EXCEPT !.acks = @ + 1]
                      ELSE g_keys
         /\ IF r = Closed
            THEN g_pc' = "closed" /\ UNCHANGED <<g_done, g_nak>>
            ELSE IF r = ReadErr
            THEN UNCHANGED <<g_pc, g_done, g_nak>>
            ELSE LET m == GpsMsg_parse_read(r.bytes)
                 IN  IF m.kind = "Ack" /\ AckMatches(m)
                     THEN /\ g_done' = g_done + 1
                          /\ g_pc' = AfterAck(g_done, g_nchunks)
                          /\ UNCHANGED g_nak
                     ELSE IF m.kind = "Nak" /\ AckMatches(m)
                     THEN /\ g_pc' = AfterNak(g_done, g_nchunks)
                          /\ g_nak' = TRUE
                          /\ UNCHANGED g_done
                     ELSE UNCHANGED <<g_pc, g_done, g_nak>>
    /\ UNCHANGED <<g_nchunks, g_sent>>
    /\ CfgFrame

-----------------------------------------------------------------------------
(* GpsDevice (device.rs) and set of cmd/config.rs *)

AckNone == [tag |-> "None"]
AckSome(id, tx) == [tag |-> "Some", id |-> id, tx |-> tx]

\* the device as a record
DevRec == [permits |-> d_permits, pending_ack |-> d_pending_ack, chan |-> d_chan,
           overwrote |-> d_overwrote]

\* dropping the Sender of an unresolved channel
DropSender(chan, pa) ==
    IF pa.tag = "Some" /\ chan[pa.tx] = "open" THEN [chan EXCEPT ![pa.tx] = "dropped"] ELSE chan

\* what the permit taken by config becomes when write_all fails
PermitsAfterFailedWrite(permits) == permits + 1

\* config(msg) with msg.id() = id once a permit is free; ok says whether
\* write_all succeeds
config(D, id, ok) ==
    LET tx == Len(D.chan) + 1
        D1 == [D EXCEPT !.permits = D.permits - 1,
                        !.overwrote = D.overwrote \/ D.pending_ack.tag = "Some",
                        !.chan = Append(DropSender(D.chan, D.pending_ack), "open"),
                        !.pending_ack = AckSome(id, tx)]
    IN  IF ok THEN D1 ELSE [D1 EXCEPT !.permits = PermitsAfterFailedWrite(D1.permits)]

\* the test read makes on an Ack or a Nak
ReadMatches(m, id) == m.msg_id = id

\* read() when read_raw returned m
read(D, m) ==
    IF D.pending_ack.tag = "Some" /\ m.kind \in {"Ack", "Nak"}
       /\ ReadMatches(m, D.pending_ack.id)
    THEN [D EXCEPT !.pending_ack = AckNone,
                   !.chan[D.pending_ack.tx] = IF m.kind = "Ack" THEN "true" ELSE "false",
                   !.permits = D.permits + 1]
    ELSE D

\* messages read_raw may return, and its failure
DevInbound ==
    { Parsed("Ack", CFG_CLASS, VALSET_ID), Parsed("Nak", CFG_CLASS, VALSET_ID),
      Parsed("Ack", CFG_CLASS, VALGET_ID), Parsed("Ack", 1, VALSET_ID),
      Parsed("Other", 0, 0), Parsed("Err", 0, 0) }

DevIdle ==
    /\ d_permits = 1
    /\ d_pending_ack = AckNone
    /\ d_chan = <<>>
    /\ d_overwrote = FALSE
    /\ d_last = [op |-> "new", ok |-> TRUE, m |-> Parsed("Other", 0, 0)]
    /\ m_pc = "idle"
    /\ m_rx = 0
    /\ m_sent = 0
    /\ m_nak = FALSE
    /\ m_nchunks = 1

\* GpsDevice::new, and a value list for set of up to MaxChunks chunks
DevInit ==
    /\ d_permits = 1
    /\ d_pending_ack = AckNone
    /\ d_chan = <<>>
    /\ d_overwrote = FALSE
    /\ d_last = [op |-> "new", ok |-> TRUE, m |-> Parsed("Other", 0, 0)]
    /\ m_pc = "idle"
    /\ m_rx = 0
    /\ m_sent = 0
    /\ m_nak = FALSE
    /\ m_nchunks \in 1..MaxChunks

DevCommit(D) ==
    /\ d_permits' = D.permits
    /\ d_pending_ack' = D.pending_ack
    /\ d_chan' = D.chan
    /\ d_overwrote' = D.overwrote

\* a caller other than set configures the device
DevConfig ==
    /\ m_pc # "select"
    /\ d_permits > 0
    /\ Len(d_chan) < MaxConfigs
    /\ \E id \in {VALSET_ID, VALGET_ID}, ok \in BOOLEAN :
         /\ DevCommit(config(DevRec, id, ok))
         /\ d_last' = [op |-> "config", ok |-> ok, m |-> Parsed("Other", 0, 0)]
    /\ UNCHANGED <<m_pc, m_rx, m_sent, m_nak, m_nchunks>>
    /\ DevFrame

\* a caller other than set reads a message
DevRead ==
    /\ m_pc # "select"
    /\ \E m \in DevInbound :
         /\ DevCommit(IF m.kind = "Err" THEN DevRec ELSE read(DevRec, m))
         /\ d_last' = [op |-> "read", ok |-> m.kind # "Err", m |-> m]
    /\ UNCHANGED <<m_pc, m_rx, m_sent, m_nak, m_nchunks>>
    /\ DevFrame

\* set sends the first chunk of values.chunks(64) with device.config; the
\* loop that follows leaves set on every path, so no other chunk is reached
CmdSetConfig ==
    /\ m_pc = "idle"
    /\ d_permits > 0
    /\ Len(d_chan) < MaxConfigs
    /\ \E ok \in BOOLEAN :
         /\ DevCommit(config(DevRec, VALSET_ID, ok))
         /\ d_last' = [op |-> "config", ok |-> ok, m |-> Parsed("Other", 0, 0)]
         /\ m_pc' = IF ok THEN "select" ELSE "failed"
         /\ m_rx' = IF ok THEN Len(d_chan) + 1 ELSE m_rx
         /\ m_sent' = IF ok THEN m_sent + 1 ELSE m_sent
    /\ UNCHANGED <<m_nak, m_nchunks>>
    /\ DevFrame

\* set's select takes the branch of device.read()
CmdSetRead ==
    /\ m_pc = "select"
    /\ \E m \in DevInbound :
         /\ DevCommit(IF m.kind = "Err" THEN DevRec ELSE read(DevRec, m))
         /\ d_last' = [op |-> "read", ok |-> m.kind # "Err", m |-> m]
         /\ m_pc' = IF m.kind = "Err" THEN "failed" ELSE "select"
    /\ UNCHANGED <<m_rx, m_sent, m_nak, m_nchunks>>
    /\ DevFrame

\* set's select takes the branch of the acknowledgement: bail! on Ok(false),
\* return Ok(()) otherwise
CmdSetAck ==
    /\ m_pc = "select"
    /\ d_chan[m_rx] # "open"
    /\ m_pc' = IF d_chan[m_rx] = "false" THEN "bailed" ELSE "returned"
    /\ m_nak' = (d_chan[m_rx] = "false")
    /\ UNCHANGED <<d_permits, d_pending_ack, d_chan, d_overwrote, d_last, m_rx, m_sent,
                   m_nchunks>>
    /\ DevFrame

DevNext == DevConfig \/ DevRead \/ CmdSetConfig \/ CmdSetRead \/ CmdSetAck

CfgNext == CfgWrite \/ CfgRecv \/ DevNext

-----------------------------------------------------------------------------
(* The TCP configuration client: get of bin/config.rs *)

\* what the NAK must carry to end get
NakMatchesGet(m) == m.cls_id = CFG_CLASS /\ m.msg_id = VALGET_ID

\* where get goes when the while loop of a chunk is left: the next chunk of
\* the for loop, or the end
NextChunk(sent, nchunks) == IF sent = nchunks THEN "finished" ELSE "write"

\* where get goes when tcp.next() returned None: the while loop ends
AfterNone(sent, nchunks) == NextChunk(sent, nchunks)

\* what GpsMsg::parse_read makes of the payloads the server forwards: the
\* VALGET response and request, acknowledgements, other messages, an error
GetParsed ==
    { Parsed("Response", CFG_CLASS, VALGET_ID), Parsed("Request", CFG_CLASS, VALGET_ID),
      Parsed("Nak", CFG_CLASS, VALGET_ID), Parsed("Nak", CFG_CLASS, VALSET_ID),
      Parsed("Nak", 1, VALGET_ID), Parsed("Ack", CFG_CLASS, VALGET_ID),
      Parsed("Other", 0, 0), Parsed("Err", 0, 0) }

\* what tcp.next() may return while get waits
GetInbound == { [tag |-> "Item", m |-> m] : m \in GetParsed } \cup { ReadErr, Closed }

GetIdle ==
    /\ v_nchunks = 1
    /\ v_sent = 0
    /\ v_got = 0
    /\ v_pc = "write"
    /\ v_last = NoItem

GetInit ==
    /\ v_nchunks \in 1..MaxGetChunks
    /\ v_sent = 0
    /\ v_got = 0
    /\ v_pc = "write"
    /\ v_last = NoItem

\* tcp.write_message(&bytes) of the request for the next chunk
GetWrite ==
    /\ v_pc = "write"
    /\ \E ok \in BOOLEAN :
         /\ v_pc' = IF ok THEN "wait" ELSE "failed"
         /\ v_sent' = IF ok THEN v_sent + 1 ELSE v_sent
    /\ v_last' = NoItem
    /\ UNCHANGED <<v_nchunks, v_got>>
    /\ GetFrame

\* one turn of the while loop: tcp.next() returns r
GetRecv ==
    /\ v_pc = "wait"
    /\ \E r \in GetInbound :
         /\ v_last' = r
         /\ IF r = Closed
            THEN v_pc' = AfterNone(v_sent, v_nchunks) /\ UNCHANGED v_got
            ELSE IF r = ReadErr
            THEN UNCHANGED <<v_pc, v_got>>
            ELSE IF r.m.kind = "Response"
            THEN v_pc' = NextChunk(v_sent, v_nchunks) /\ v_got' = v_got + 1
            ELSE IF r.m.kind = "Nak" /\ NakMatchesGet(r.m)
            THEN v_pc' = "nak" /\ UNCHANGED v_got
            ELSE UNCHANGED <<v_pc, v_got>>
    /\ UNCHANGED <<v_nchunks, v_sent>>
    /\ GetFrame

GetNext == GetWrite \/ GetRecv

-----------------------------------------------------------------------------
(* The codec: ParseData of parse.rs and of msg/ubx.rs, msg/ubx/ack.rs,     *)
(* msg/ubx/inf.rs, msg/nmea.rs, msg/server.rs, msg/mod.rs                   *)

\* Result of a parse_read: Ok((rest, v)) or Err(err)
POk(rest, v) == [ok |-> TRUE, err |-> "", rest |-> rest, v |-> v]

PErr(e) == [ok |-> FALSE, err |-> e, rest |-> <<>>, v |-> [t |-> "None"]]

\* ResultExt::map_invalid
map_invalid(r, e) == IF ~r.ok /\ r.err = "Invalid" THEN PErr(e) ELSE r

\* <u16 as ParseData>::parse_write
u16_parse_write(n) == <<n % 256, (n \div 256) % 256>>

\* parse::tag with a u16
tag_u16(b, tag) ==
    IF Len(b) < 2 THEN PErr("NotEnoughData")
    ELSE IF b[1] + 256 * b[2] = tag THEN POk(Drop(b, 2), [t |-> "tag"]) ELSE PErr("Invalid")

\* String::from_utf8 succeeds; the byte strings of the model hold ASCII and
\* the byte 255, which no UTF-8 string contains
from_utf8_ok(bytes) == \A i \in 1..Len(bytes) : bytes[i] < 128

\* ---- class ACK (msg/ubx/ack.rs) ----

\* a parse of AckData that takes the two fields in the other order
AckData_parse_read_Swapped(b, var) ==
    IF Len(b) < 2 THEN PErr("NotEnoughData")
    ELSE POk(Drop(b, 2), [var |-> var, cls_id |-> b[2], msg_id |-> b[1]])

\* <AckData as ParseData>::parse_read
AckData_parse_read(b, var) ==
    IF Len(b) < 2 THEN PErr("NotEnoughData")
    ELSE POk(Drop(b, 2), [var |-> var, cls_id |-> b[1], msg_id |-> b[2]])

\* an unknown message of a class: Unknown{id, payload}
ClassUnknown_parse_read(b, id) ==
    IF Len(b) < 2 THEN PErr("NotEnoughData")
    ELSE IF Len(b) - 2 < b[1] + 256 * b[2] THEN PErr("NotEnoughData")
    ELSE POk(Drop(b, 2 + b[1] + 256 * b[2]),
             [var |-> "Unknown", id |-> id, payload |-> SubSeq(b, 3, 2 + b[1] + 256 * b[2])])

\* the rest of an Ack or Nak once the length tag was read
AckAfterLen(r, var) == IF r.ok THEN AckData_parse_read(r.rest, var) ELSE r

\* <Ack as ParseData>::parse_read
Ack_parse_read(b) ==
    IF b = <<>> THEN PErr("NotEnoughData")
    ELSE IF b[1] = ACK_ACK
    THEN AckAfterLen(map_invalid(tag_u16(Tail(b), 2), "InvalidLen"), "Ack")
    ELSE IF b[1] = ACK_NAK
    THEN AckAfterLen(map_invalid(tag_u16(Tail(b), 2), "InvalidLen"), "Nak")
    ELSE ClassUnknown_parse_read(Tail(b), b[1])

\* <Ack as ParseData>::parse_write
Ack_parse_write(x) ==
    CASE x.var = "Ack" -> <<ACK_ACK, x.cls_id, x.msg_id>>
      [] x.var = "Nak" -> <<ACK_NAK, x.cls_id, x.msg_id>>
      [] x.var = "Unknown" -> <<x.id>> \o u16_parse_write(Len(x.payload)) \o x.payload

\* <PollAck as ParseData>::parse_read
PollAck_parse_read(b) ==
    IF b = <<>> THEN PErr("NotEnoughData")
    ELSE IF b[1] = ACK_ACK THEN POk(Tail(b), [var |-> "Ack"])
    ELSE IF b[1] = ACK_NAK THEN POk(Tail(b), [var |-> "Nak"])
    ELSE PErr("Invalid")

\* <PollAck as ParseData>::parse_write
PollAck_parse_write(x) ==
    CASE x.var = "Ack" -> <<ACK_ACK, 0, 0>>
      [] x.var = "Nak" -> <<ACK_NAK, 0, 0>>

\* ---- class INF (msg/ubx/inf.rs) ----

INF_DEBUG == 4
INF_ERROR == 0
INF_NOTICE == 2
INF_TEST == 3
INF_WARNING == 4

\* the message ids of Inf in the order of the match arms
InfArms == << [id |-> INF_DEBUG, var |-> "Debug"], [id |-> INF_ERROR, var |-> "Error"],
              [id |-> INF_NOTICE, var |-> "Notice"], [id |-> INF_TEST, var |-> "Test"],
              [id |-> INF_WARNING, var |-> "Warning"] >>

\* the first arm of the match that has the id, or 0
InfArmOf(id) ==
    IF \E i \in 1..Len(InfArms) : InfArms[i].id = id
    THEN CHOOSE i \in 1..Len(InfArms) :
            /\ InfArms[i].id = id
            /\ \A j \in 1..(i - 1) : InfArms[j].id # id
    ELSE 0

\* the id that parse_write writes for a variant
InfIdOf(var) == InfArms[CHOOSE i \in 1..Len(InfArms) : InfArms[i].var = var].id

\* parse_read of one of the five String messages
InfString_parse_read(b, var) ==
    IF Len(b) < 2 THEN PErr("NotEnoughData")
    ELSE IF Len(b) - 2 < b[1] + 256 * b[2] THEN PErr("NotEnoughData")
    ELSE IF ~from_utf8_ok(SubSeq(b, 3, 2 + b[1] + 256 * b[2])) THEN PErr("Invalid")
    ELSE POk(Drop(b, 2 + b[1] + 256 * b[2]),
             [var |-> var, str |-> SubSeq(b, 3, 2 + b[1] + 256 * b[2])])

\* <Inf as ParseData>::parse_read
Inf_parse_read(b) ==
    IF b = <<>> THEN PErr("NotEnoughData")
    ELSE IF InfArmOf(b[1]) # 0
    THEN InfString_parse_read(Tail(b), InfArms[InfArmOf(b[1])].var)
    ELSE ClassUnknown_parse_read(Tail(b), b[1])

\* <Inf as ParseData>::parse_write
Inf_parse_write(x) ==
    IF x.var = "Unknown"
    THEN <<x.id>> \o u16_parse_write(Len(x.payload)) \o x.payload
    ELSE <<InfIdOf(x.var)>> \o u16_parse_write(Len(x.str)) \o x.str

\* <PollInf as ParseData>::parse_read
PollInf_parse_read(b) ==
    IF b = <<>> THEN PErr("NotEnoughData")
    ELSE IF InfArmOf(b[1]) # 0 THEN POk(Tail(b), [var |-> InfArms[InfArmOf(b[1])].var])
    ELSE PErr("Invalid")

\* <PollInf as ParseData>::parse_write
PollInf_parse_write(x) == <<InfIdOf(x.var), 0, 0>>

\* ---- Ubx and UbxPoll (msg/ubx.rs) ----

INF_CLASS == 4

\* the classes of impl_ubx whose messages are part of the model
KnownClasses == {ACK_CLASS, INF_CLASS}

\* the classes of impl_ubx whose messages are not: Cfg, Nav, Mon, Rxm
OtherClasses == {6, 1, 10, 2}

\* <$t as ParseData>::parse_read of the class
Class_parse_read(class, b) ==
    IF class = ACK_CLASS THEN Ack_parse_read(b) ELSE Inf_parse_read(b)

Class_parse_write(class, x) ==
    IF class = ACK_CLASS THEN Ack_parse_write(x) ELSE Inf_parse_write(x)

PollClass_parse_read(class, b) ==
    IF class = ACK_CLASS THEN PollAck_parse_read(b) ELSE PollInf_parse_read(b)

PollClass_parse_write(class, x) ==
    IF class = ACK_CLASS THEN PollAck_parse_write(x) ELSE PollInf_parse_write(x)

\* Ubx::checksum_valid
checksum_valid(data, ck_a, ck_b) == checksum(data) = <<ck_a, ck_b>>

\* the two checksum bytes after the part c of the frame, then the check
CheckTrailer(c, b, v) ==
    IF Len(b) < 2 THEN PErr("NotEnoughData")
    ELSE IF ~checksum_valid(c, b[1], b[2]) THEN PErr("InvalidChecksum")
    ELSE POk(Drop(b, 2), v)

\* a known class of Ubx::parse_read after its message was parsed; c0 is the
\* frame from the class byte on
UbxKnownAfter(c0, class, r) ==
    IF ~r.ok THEN r
    ELSE CheckTrailer(Take(c0, Len(c0) - Len(r.rest)), r.rest,
                      [t |-> "Ubx", class |-> class, inner |-> r.v])

\* the Unknown arm of Ubx::parse_read; c0 is the frame from the class byte on
UbxUnknown_parse_read(c0) ==
    IF Len(c0) < 2 THEN PErr("NotEnoughData")
    ELSE IF Len(c0) < 4 THEN PErr("NotEnoughData")
    ELSE IF Len(c0) - 4 < c0[3] + 256 * c0[4] THEN PErr("NotEnoughData")
    ELSE IF Len(c0) - 4 - (c0[3] + 256 * c0[4]) < 2 THEN PErr("NotEnoughData")
    ELSE IF ~checksum_valid(Take(c0, 4 + c0[3] + 256 * c0[4]),
                            c0[5 + c0[3] + 256 * c0[4]], c0[6 + c0[3] + 256 * c0[4]])
    THEN PErr("InvalidChecksum")
    ELSE POk(Drop(c0, 6 + c0[3] + 256 * c0[4]),
             [t |-> "UbxUnknown", class |-> c0[1], msg |-> c0[2],
              len |-> c0[3] + 256 * c0[4],
              payload |-> SubSeq(c0, 5, 4 + c0[3] + 256 * c0[4]),
              ck_a |-> c0[5 + c0[3] + 256 * c0[4]],
              ck_b |-> c0[6 + c0[3] + 256 * c0[4]]])

\* Ubx::parse_read after the two sync bytes
UbxBody_parse_read(c0) ==
    IF c0 = <<>> THEN PErr("NotEnoughData")
    ELSE IF c0[1] \in KnownClasses
    THEN UbxKnownAfter(c0, c0[1], Class_parse_read(c0[1], Tail(c0)))
    ELSE IF c0[1] \in OtherClasses THEN PErr("NotModelled")
    ELSE UbxUnknown_parse_read(c0)

\* the two sync bytes
UbxHeader(b) ==
    IF b = <<>> THEN PErr("NotEnoughData")
    ELSE IF b[1] # UBX_SYNC1 THEN PErr("InvalidHeader")
    ELSE IF Len(b) < 2 THEN PErr("NotEnoughData")
    ELSE IF b[2] # UBX_SYNC2 THEN PErr("InvalidHeader")
    ELSE POk(Drop(b, 2), [t |-> "tag"])

\* <Ubx as ParseData>::parse_read
Ubx_parse_read(b) ==
    IF ~UbxHeader(b).ok THEN UbxHeader(b) ELSE UbxBody_parse_read(Drop(b, 2))

\* <Ubx as ParseData>::parse_write
Ubx_parse_write(m) ==
    IF m.t = "Ubx"
    THEN <<UBX_SYNC1, UBX_SYNC2>>
         \o <<m.class>> \o Class_parse_write(m.class, m.inner)
         \o checksum(<<m.class>> \o Class_parse_write(m.class, m.inner))
    ELSE <<UBX_SYNC1, UBX_SYNC2, m.class, m.msg>> \o u16_parse_write(m.len)
         \o m.payload \o <<m.ck_a, m.ck_b>>

\* a known class of UbxPoll::parse_read after the poll message was parsed
PollKnownAfterTag(c0, class, v, r) ==
    IF ~r.ok THEN r
    ELSE CheckTrailer(Take(c0, Len(c0) - Len(r.rest)), r.rest,
                      [t |-> "UbxPoll", class |-> class, inner |-> v])

PollKnownAfter(c0, class, r) ==
    IF ~r.ok THEN r ELSE PollKnownAfterTag(c0, class, r.v, tag_u16(r.rest, 0))

\* the Unknown arm of UbxPoll::parse_read: the checksum is read, not checked
PollUnknownAfterTag(c0, r) ==
    IF ~r.ok THEN r
    ELSE IF Len(r.rest) < 2 THEN PErr("NotEnoughData")
    ELSE POk(Drop(r.rest, 2),
             [t |-> "UbxPollUnknown", class |-> c0[1], msg |-> c0[2],
              ck_a |-> r.rest[1], ck_b |-> r.rest[2]])

PollUnknown_parse_read(c0) ==
    IF Len(c0) < 2 THEN PErr("NotEnoughData")
    ELSE PollUnknownAfterTag(c0, tag_u16(Drop(c0, 2), 0))

UbxPollBody_parse_read(c0) ==
    IF c0 = <<>> THEN PErr("NotEnoughData")
    ELSE IF c0[1] \in KnownClasses
    THEN PollKnownAfter(c0, c0[1], PollClass_parse_read(c0[1], Tail(c0)))
    ELSE IF c0[1] \in OtherClasses THEN PErr("NotModelled")
    ELSE PollUnknown_parse_read(c0)

\* <UbxPoll as ParseData>::parse_read
UbxPoll_parse_read(b) ==
    IF ~UbxHeader(b).ok THEN UbxHeader(b) ELSE UbxPollBody_parse_read(Drop(b, 2))

\* <UbxPoll as ParseData>::parse_write
UbxPoll_parse_write(m) ==
    IF m.t = "UbxPoll"
    THEN <<UBX_SYNC1, UBX_SYNC2>>
         \o <<m.class>> \o PollClass_parse_write(m.class, m.inner)
         \o checksum(<<m.class>> \o PollClass_parse_write(m.class, m.inner))
    ELSE <<UBX_SYNC1, UBX_SYNC2, m.class, m.msg, 0, 0, m.ck_a, m.ck_b>>

\* ---- Nmea (msg/nmea.rs) ----

\* the loop of Nmea::parse_read: res holds the chars pushed so far; every
\* byte is a char (char: From<u8>), the one with its value as code point
RECURSIVE NmeaLoop(_, _)
NmeaLoop(b, res) ==
    IF b = <<>> THEN PErr("NotEnoughData")
    ELSE IF b[1] # CR THEN NmeaLoop(Tail(b), Append(res, b[1]))
    ELSE IF Len(b) < 2 THEN PErr("NotEnoughData")
    ELSE IF b[2] = LF
    THEN POk(Drop(b, 2), [t |-> "Nmea", str |-> res \o <<CR, LF>>])
    ELSE NmeaLoop(Drop(b, 2), res \o <<b[1], b[2]>>)

\* <Nmea as ParseData>::parse_read: the String as the sequence of its chars
Nmea_parse_read(b) ==
    IF b = <<>> THEN PErr("NotEnoughData")
    ELSE IF b[1] # NMEA_PREAMBLE THEN PErr("Invalid")
    ELSE NmeaLoop(Tail(b), <<NMEA_PREAMBLE>>)

\* the UTF-8 bytes of a char up to U+00FF
Utf8(ch) == IF ch < 128 THEN <<ch>> ELSE <<192 + (ch \div 64), 128 + (ch % 64)>>

\* String::as_bytes
RECURSIVE as_bytes(_)
as_bytes(str) == IF str = <<>> THEN <<>> ELSE Utf8(Head(str)) \o as_bytes(Tail(str))

\* <Nmea as ParseData>::parse_write
Nmea_parse_write(m) == as_bytes(m.str)

\* ---- Server (msg/server.rs) ----

\* <Server as ParseData>::parse_read with its remainder
Server_ParseData_parse_read(b) ==
    IF b = <<>> THEN PErr("NotEnoughData")
    ELSE IF b[1] # PREFIX THEN PErr("Invalid")
    ELSE IF Len(b) < 2 THEN PErr("NotEnoughData")
    ELSE IF Server_parse_read(b) = "Err" THEN PErr("Invalid")
    ELSE POk(Drop(b, 2), [t |-> "Server", msg |-> Server_parse_read(b)])

\* <Server as ParseData>::parse_write
Server_parse_write(m) == <<PREFIX, IF m.msg = "Quit" THEN 1 ELSE 0>>

\* ---- GpsMsg (msg/mod.rs) ----

\* the fallback of parse_gps_msg
GpsMsgFallback(r, b) ==
    IF r.ok THEN r
    ELSE IF r.err \in {"Invalid", "InvalidLen"} THEN UbxPoll_parse_read(b)
    ELSE r

\* GpsMsg::parse_gps_msg
parse_gps_msg(b) == GpsMsgFallback(Ubx_parse_read(b), b)

\* <GpsMsg as ParseData>::parse_read; the Rtcm variant is not part of it
GpsMsg_ParseData_parse_read(b) ==
    IF Ubx_contains_prefix(b) THEN parse_gps_msg(b)
    ELSE IF Rtcm_contains_prefix(b) THEN PErr("NotModelled")
    ELSE IF Nmea_contains_prefix(b) THEN Nmea_parse_read(b)
    ELSE IF Server_contains_prefix(b) THEN Server_ParseData_parse_read(b)
    ELSE PErr("Invalid")

\* <GpsMsg as ParseData>::parse_write
GpsMsg_parse_write(m) ==
    CASE m.t \in {"Ubx", "UbxUnknown"} -> Ubx_parse_write(m)
      [] m.t \in {"UbxPoll", "UbxPollUnknown"} -> UbxPoll_parse_write(m)
      [] m.t = "Nmea" -> Nmea_parse_write(m)
      [] m.t = "Server" -> Server_parse_write(m)

\* ---- RtcmFrame (rtcm.rs) ----

\* bitwise exclusive or of two naturals
RECURSIVE Xor(_, _)
Xor(a, b) ==
    IF a = 0 THEN b
    ELSE IF b = 0 THEN a
    ELSE ((a + b) % 2) + 2 * Xor(a \div 2, b \div 2)

CRC_TAB == << 0, 25578747, 59430157, 34380278, 127133409, 102083098, 68760556, 94338839,
              262242617, 237489602, 204166196, 229447887, 137521112, 162802467, 196653781,
              171900462 >>

\* a u32 as its bits 24..31 (hi) and its bits 0..23 (lo)
U32(hi, lo) == [hi |-> hi, lo |-> lo]

\* (crc << 4) ^ t on a u32
ShiftXor(crc, t) ==
    U32(Xor(((crc.hi * 16) % 256) + (crc.lo \div 1048576), t \div 16777216),
        Xor((crc.lo * 16) % 16777216, t % 16777216))

\* crc = (crc << 4) ^ CRC_TAB[((crc >> 20) & 0x0F) as usize]
CrcNibble(crc) == ShiftXor(crc, CRC_TAB[((crc.lo \div 1048576) % 16) + 1])

\* crc ^= (b as u32) << 16, then the two table steps
CrcByte(crc, byte) == CrcNibble(CrcNibble(U32(crc.hi, Xor(crc.lo, byte * 65536))))

\* the loop over the bytes of d; crc stays a u32
RECURSIVE CrcFrom(_, _)
CrcFrom(d, crc) ==
    IF crc.hi > 255 \/ d = <<>> THEN crc ELSE CrcFrom(Tail(d), CrcByte(crc, Head(d)))

\* crc24q_check: (crc & 0xffffff) == 0
crc24q_check(d) == CrcFrom(d, U32(0, 0)).lo = 0

\* the size of the frame that b announces
RtcmSize(b) == ((b[2] % 4) * 256 + b[3]) + 6

\* kind as from_bytes computes it, a u16: the two parts of the | share no bit
RtcmKind(b) == ((b[4] * 16) % 65536) + (b[4] \div 16)

\* RtcmFrame::from_bytes
from_bytes(b) ==
    IF Len(b) < 6 THEN [ok |-> FALSE, err |-> "NotEnoughData", kind |-> 0, size |-> 0]
    ELSE IF b[1] # RTCM_PREAMBLE
    THEN [ok |-> FALSE, err |-> "InvalidHeader", kind |-> 0, size |-> 0]
    ELSE IF Len(b) < RtcmSize(b)
    THEN [ok |-> FALSE, err |-> "NotEnoughData", kind |-> 0, size |-> 0]
    ELSE IF ~crc24q_check(Take(b, RtcmSize(b)))
    THEN [ok |-> FALSE, err |-> "InvalidChecksum", kind |-> 0, size |-> 0]
    ELSE [ok |-> TRUE, err |-> "", kind |-> RtcmKind(b), size |-> RtcmSize(b)]

-----------------------------------------------------------------------------
(* Specification of the codec: a GpsMsg value and a byte string are chosen  *)
(* at the start; the actions apply parse_write, parse_read and from_bytes.  *)

\* an Ubx frame with the checksum of its bytes from the class on
UbxFrame(c) == <<UBX_SYNC1, UBX_SYNC2>> \o c \o checksum(c)

\* an Ubx frame whose second checksum byte is off by one
UbxFrameBadSum(c) ==
    <<UBX_SYNC1, UBX_SYNC2>> \o c \o <<checksum(c)[1], (checksum(c)[2] + 1) % 256>>

\* GpsMsg::Ubx of the classes Ack and Inf
AckMessages ==
    { [t |-> "Ubx", class |-> ACK_CLASS, inner |-> [var |-> v, cls_id |-> c, msg_id |-> VALSET_ID]] :
        v \in {"Ack", "Nak"}, c \in {CFG_CLASS, 2} }
    \cup { [t |-> "Ubx", class |-> ACK_CLASS, inner |-> [var |-> "Unknown", id |-> 7, payload |-> <<9>>]] }

InfMessages ==
    { [t |-> "Ubx", class |-> INF_CLASS, inner |-> [var |-> v, str |-> s]] :
        v \in {"Debug", "Error", "Notice", "Test", "Warning"}, s \in {<<>>, <<72, 105>>} }
    \cup { [t |-> "Ubx", class |-> INF_CLASS, inner |-> [var |-> "Unknown", id |-> 7, payload |-> <<9>>]] }

\* Ubx::Unknown as parse_read builds it: an unknown class, the checksum of its bytes
UbxUnknownMessages ==
    { [t |-> "UbxUnknown", class |-> 9, msg |-> 1, len |-> Len(p), payload |-> p,
       ck_a |-> checksum(<<9, 1>> \o u16_parse_write(Len(p)) \o p)[1],
       ck_b |-> checksum(<<9, 1>> \o u16_parse_write(Len(p)) \o p)[2]] : p \in {<<7>>, <<7, 8>>} }

\* GpsMsg::UbxPoll
PollMessages ==
    { [t |-> "UbxPoll", class |-> ACK_CLASS, inner |-> [var |-> v]] : v \in {"Ack", "Nak"} }
    \cup { [t |-> "UbxPoll", class |-> INF_CLASS, inner |-> [var |-> v]] :
             v \in {"Debug", "Error", "Notice", "Test", "Warning"} }
    \cup { [t |-> "UbxPollUnknown", class |-> 9, msg |-> 1,
            ck_a |-> checksum(<<9, 1, 0, 0>>)[1], ck_b |-> checksum(<<9, 1, 0, 0>>)[2]] }

\* GpsMsg::Nmea with an ASCII sentence and with one that holds U+00C8
NmeaMessages == { [t |-> "Nmea", str |-> s] : s \in {<<36, 71, 13, 10>>, <<36, 200, 13, 10>>} }

ServerMessages == { [t |-> "Server", msg |-> m] : m \in {"ResetPort", "Quit"} }

CodecMessages ==
    AckMessages \cup InfMessages \cup UbxUnknownMessages \cup PollMessages
    \cup NmeaMessages \cup ServerMessages

\* the ACK-ACK of CFG-VALSET with the trailer 98 C6, and with its checksum
AckBytesC6 == <<181, 98, 5, 1, 2, 0, 6, 138, 152, 198>>
AckBytes == UbxFrame(<<ACK_CLASS, ACK_ACK, 2, 0, CFG_CLASS, VALSET_ID>>)

\* frames of a known and of an unknown class, data and poll, with the
\* checksum of their bytes and with another one
UbxInputs ==
    { AckBytesC6, AckBytes, AckBytes \o <<36>> }
    \cup { UbxFrame(c) : c \in { <<INF_CLASS, INF_NOTICE, 1, 0, 72>>, <<9, 1, 1, 0, 7>>,
                                 <<9, 1, 0, 0>>, <<ACK_CLASS, ACK_NAK, 0, 0>> } }
    \cup { UbxFrameBadSum(c) : c \in { <<INF_CLASS, INF_NOTICE, 1, 0, 72>>, <<9, 1, 1, 0, 7>>,
                                       <<9, 1, 0, 0>>, <<ACK_CLASS, ACK_NAK, 0, 0>> } }

\* sentences: ASCII, with a byte 0xC8, with \r inside, cut short
NmeaInputs ==
    { <<36, 71, 13, 10>>, <<36, 200, 13, 10>>, <<36, 71, 13, 65, 13, 10>>, <<36, 71, 13>>,
      <<36, 71, 13, 10, 36>> }

\* RTCM frames with their CRC-24Q, one with another CRC, one cut short
RtcmInputs ==
    { <<211, 0, 5, 62, 208, 0, 0, 0, 153, 110, 39>>, <<211, 0, 0, 71, 234, 75>>,
      <<211, 0, 2, 67, 48, 19, 208, 69>>, <<211, 0, 1, 62, 123, 53, 56>>,
      <<211, 0, 1, 62, 123, 53, 57>>, <<211, 0, 1, 62, 123>> }

ServerInputs == { <<37, 1>>, <<37, 2>> }

CodecInputs == UbxInputs \cup NmeaInputs \cup RtcmInputs \cup ServerInputs

Parsers == {"GpsMsg", "Ubx", "UbxPoll", "Nmea"}

\* the parse_read of a parser
Apply(parser, b) ==
    CASE parser = "GpsMsg" -> GpsMsg_ParseData_parse_read(b)
      [] parser = "Ubx" -> Ubx_parse_read(b)
      [] parser = "UbxPoll" -> UbxPoll_parse_read(b)
      [] parser = "Nmea" -> Nmea_parse_read(b)

NoBytes == [done |-> FALSE, bytes |-> <<>>]
NoParse == [done |-> FALSE, parser |-> "none", r |-> PErr("None")]
NoFrame == [done |-> FALSE, r |-> [ok |-> FALSE, err |-> "None", kind |-> 0, size |-> 0]]

CodecIdle ==
    /\ k_msg = [t |-> "Server", msg |-> "Quit"]
    /\ k_feed = <<>>
    /\ k_wire = NoBytes
    /\ k_back = NoParse
    /\ k_res = NoParse
    /\ k_out = NoBytes
    /\ k_frame = NoFrame

CodecInit ==
    /\ k_msg \in CodecMessages
    /\ k_feed \in CodecInputs
    /\ k_wire = NoBytes
    /\ k_back = NoParse
    /\ k_res = NoParse
    /\ k_out = NoBytes
    /\ k_frame = NoFrame

\* m.parse_write(&mut wire)
CodecWrite ==
    /\ ~k_wire.done
    /\ k_wire' = [done |-> TRUE, bytes |-> GpsMsg_parse_write(k_msg)]
    /\ UNCHANGED <<k_msg, k_feed, k_back, k_res, k_out, k_frame>>
    /\ CodecFrame

\* GpsMsg::parse_read(&wire)
CodecReadBack ==
    /\ k_wire.done
    /\ ~k_back.done
    /\ k_back' = [done |-> TRUE, parser |-> "GpsMsg",
                  r |-> GpsMsg_ParseData_parse_read(k_wire.bytes)]
    /\ UNCHANGED <<k_msg, k_feed, k_wire, k_res, k_out, k_frame>>
    /\ CodecFrame

\* one of the parsers is given the input
CodecParse ==
    /\ ~k_res.done
    /\ \E parser \in Parsers :
          k_res' = [done |-> TRUE, parser |-> parser, r |-> Apply(parser, k_feed)]
    /\ UNCHANGED <<k_msg, k_feed, k_wire, k_back, k_out, k_frame>>
    /\ CodecFrame

\* the value parsed from the input is written again
CodecWriteBack ==
    /\ k_res.done
    /\ k_res.r.ok
    /\ ~k_out.done
    /\ k_out' = [done |-> TRUE, bytes |-> GpsMsg_parse_write(k_res.r.v)]
    /\ UNCHANGED <<k_msg, k_feed, k_wire, k_back, k_res, k_frame>>
    /\ CodecFrame

\* RtcmFrame::from_bytes(&input)
CodecFromBytes ==
    /\ ~k_frame.done
    /\ k_frame' = [done |-> TRUE, r |-> from_bytes(k_feed)]
    /\ UNCHANGED <<k_msg, k_feed, k_wire, k_back, k_res, k_out>>
    /\ CodecFrame

CodecNext ==
    \/ CodecWrite
    \/ CodecReadBack
    \/ CodecParse
    \/ CodecWriteBack
    \/ CodecFromBytes

-----------------------------------------------------------------------------
(* The framing probes applied to any buffer, and the framing loop of the  *)
(* serial arm of the hub (bin/server.rs:206-226) turn by turn              *)

\* no message_usage yet
NoUsage == [done |-> FALSE, r |-> UsageNone]

\* buffers of sentence bytes: '$', CR, LF and a letter in every order
SentenceBuffers == SeqsUpTo({NMEA_PREAMBLE, CR, LF, 71}, MaxProbeLen)

\* pieces of a serial stream: whole messages, messages cut short, length
\* fields that point past the end, noise
Pieces ==
    { UbxMsg, <<181, 98, 1, 2, 1, 0, 9, 13, 25>>, <<181, 98, 1, 2, 0, 0>>, <<181, 98, 1>>,
      <<181, 98, 1, 2, 255, 255, 0, 0>>, <<181>>,
      RtcmMsg, <<211, 0>>, <<211, 3, 255>>, <<211, 0, 1, 62, 123, 53, 56>>,
      NmeaMsg, <<36, 13>>, <<36, 13, 13, 10>>,
      QuitMsg, <<37>>, <<0>>, <<10>> }

\* buffers made of pieces
PieceBuffers == { Concat(ps) : ps \in SeqsUpTo(Pieces, MaxPieces) }

ProbeBuffers == SentenceBuffers \cup PieceBuffers

ProbeIdle ==
    /\ f_b = <<>>
    /\ f_nmea = NoUsage
    /\ f_gps = NoUsage
    /\ f_acc = <<>>
    /\ f_iter = 0

\* the serial arm has appended a read to pending_read_bytes and called
\* find_message (server.rs:205-206)
ProbeInit ==
    /\ f_b \in ProbeBuffers
    /\ f_nmea = NoUsage
    /\ f_gps = NoUsage
    /\ f_acc = find_message(f_b)
    /\ f_iter = 0

\* Nmea::message_usage(b)
ProbeNmea ==
    /\ ~f_nmea.done
    /\ f_nmea' = [done |-> TRUE, r |-> Nmea_message_usage(f_b)]
    /\ UNCHANGED <<f_b, f_gps, f_acc, f_iter>>
    /\ ProbeFrame

\* GpsMsg::message_usage(b)
ProbeGps ==
    /\ ~f_gps.done
    /\ f_gps' = [done |-> TRUE, r |-> GpsMsg_message_usage(f_b)]
    /\ UNCHANGED <<f_b, f_nmea, f_acc, f_iter>>
    /\ ProbeFrame

\* pending_read_bytes after one turn of the while-let loop that found a
\* message of n bytes: split_off(n), swap, forward, find_message
SplitTurn(pending, n) == find_message(Drop(pending, n))

\* one turn of the while-let loop of the serial arm
FrameSplit ==
    /\ GpsMsg_message_usage(f_acc).tag = "Some"
    /\ f_acc' = SplitTurn(f_acc, GpsMsg_message_usage(f_acc).len)
    /\ f_iter' = f_iter + 1
    /\ UNCHANGED <<f_b, f_nmea, f_gps>>
    /\ ProbeFrame

ProbeNext == ProbeNmea \/ ProbeGps \/ FrameSplit

-----------------------------------------------------------------------------
(* The Python bridge (gps_python_bridge/src/lib.rs): GpsConnection and its *)
(* socket_loop, joined by two bounded channels                             *)

\* mpsc::channel(64)
CHANNEL_BUFFER == 64

\* messages a futures mpsc channel with one Sender holds before try_send
\* fails with a full error: its buffer and the slot of the Sender
Capacity == CHANNEL_BUFFER + 1

\* Sender::try_send on a channel that holds n messages; alive says whether
\* the Receiver still exists
try_send(n, alive) ==
    IF ~alive THEN [n |-> n, err |-> "disconnected", queued |-> FALSE]
    ELSE IF n >= Capacity THEN [n |-> n, err |-> "full", queued |-> FALSE]
    ELSE [n |-> n + 1, err |-> "none", queued |-> TRUE]

\* GpsConnection::send once the object was depythonized: what it returns
send(n, alive) ==
    [n |-> try_send(n, alive).n, queued |-> try_send(n, alive).queued,
     ret |-> IF try_send(n, alive).err = "disconnected" THEN "err" ELSE "ok"]

BridgeIdle ==
    /\ b_to_loop = 0
    /\ b_to_py = 0
    /\ b_pc = "select"
    /\ b_last = [op |-> "new", ret |-> "ok", queued |-> TRUE, ran |-> TRUE, runs |-> TRUE]

\* GpsConnection::new, the socket connected
BridgeInit == BridgeIdle

\* Python calls send(object)
BridgeSend ==
    /\ LET r == send(b_to_loop, b_pc # "returned")
       IN  /\ b_to_loop' = r.n
           /\ b_last' = [op |-> "send", ret |-> r.ret, queued |-> r.queued,
                       ran |-> b_pc # "returned", runs |-> b_pc # "returned"]
    /\ UNCHANGED <<b_to_py, b_pc>>
    /\ BridgeFrame

\* Python calls next() and the channel holds a message
BridgeRecv ==
    /\ b_to_py > 0
    /\ b_to_py' = b_to_py - 1
    /\ UNCHANGED <<b_to_loop, b_pc, b_last>>
    /\ BridgeFrame

\* socket_loop: connection.next() yields a payload; parsed says whether
\* GpsMsg::parse_read accepts it
LoopInbound ==
    /\ b_pc = "select"
    /\ \E parsed \in BOOLEAN :
         IF parsed
         THEN LET r == try_send(b_to_py, TRUE)
              IN  /\ b_to_py' = r.n
                  /\ b_pc' = IF r.err = "disconnected" THEN "returned" ELSE "select"
                  /\ b_last' = [op |-> "forward", ret |-> r.err, queued |-> r.queued,
                              ran |-> TRUE, runs |-> r.err # "disconnected"]
         ELSE UNCHANGED <<b_to_py, b_pc, b_last>>
    /\ UNCHANGED b_to_loop
    /\ BridgeFrame

\* socket_loop: connection.next() yields an error, which send(..).await
\* queues as soon as the channel has room
LoopInboundErr ==
    /\ \/ b_pc = "select" /\ b_pc' = "send_err" /\ UNCHANGED b_to_py
       \/ b_pc = "send_err" /\ b_to_py < Capacity /\ b_to_py' = b_to_py + 1 /\ b_pc' = "select"
    /\ UNCHANGED <<b_to_loop, b_last>>
    /\ BridgeFrame

\* socket_loop: recv.next() yields a message, which is written to the
\* connection; a write error is printed
LoopOutbound ==
    /\ b_pc = "select"
    /\ b_to_loop > 0
    /\ b_to_loop' = b_to_loop - 1
    /\ UNCHANGED <<b_to_py, b_pc, b_last>>
    /\ BridgeFrame

\* socket_loop: the connection's stream ends
LoopEnd ==
    /\ b_pc = "select"
    /\ b_pc' = "returned"
    /\ UNCHANGED <<b_to_loop, b_to_py, b_last>>
    /\ BridgeFrame

BridgeNext ==
    \/ BridgeSend
    \/ BridgeRecv
    \/ LoopInbound
    \/ LoopInboundErr
    \/ LoopOutbound
    \/ LoopEnd

-----------------------------------------------------------------------------
(* GpsDevice::read_raw (device.rs) over GpsMsg::from_bytes of main.rs *)

MaxTurns == 3
MaxReads == 2

NAV_CLASS == 1
NAV_CLOCK == 34
NAV_EOE == 97
UPD_CLASS == 9

FromOk(used) == [ok |-> TRUE, err |-> "", used |-> used]
FromErr(e) == [ok |-> FALSE, err |-> e, used |-> 0]

\* ubx::Nav::from_bytes for the messages Clock and Eoe: b follows the class
Nav_from_bytes(b) ==
    IF b = <<>> THEN PErr("NotEnoughData")
    ELSE IF b[1] = NAV_CLOCK THEN POk(Tail(b), [t |-> "Clock"])
    ELSE IF b[1] = NAV_EOE
    THEN LET t == map_invalid(tag_u16(Tail(b), 4), "InvalidLen")
         IN  IF ~t.ok THEN t
             ELSE IF Len(t.rest) < 4 THEN PErr("NotEnoughData")
             ELSE POk(Drop(t.rest, 4), [t |-> "Eoe"])
    ELSE PErr("InvalidMsg")

\* the checksum bytes that follow the payload, and the length of the frame
MsgTrailer(before, rest) ==
    LET payload_len == Len(before) - Len(rest)
    IN  IF Len(rest) < 2 THEN FromErr("NotEnoughData")
        ELSE IF checksum(Take(before, payload_len)) # <<rest[1], rest[2]>>
        THEN FromErr("InvalidChecksum")
        ELSE FromOk(payload_len + 4)

\* ubx::Msg::from_bytes for the classes NAV and UPD
Msg_from_bytes(b) ==
    IF b = <<>> THEN FromErr("NotEnoughData")
    ELSE IF b[1] # UBX_SYNC1 THEN FromErr("InvalidHeader")
    ELSE IF Len(b) < 2 THEN FromErr("NotEnoughData")
    ELSE IF b[2] # UBX_SYNC2 THEN FromErr("InvalidHeader")
    ELSE IF Len(b) < 3 THEN FromErr("NotEnoughData")
    ELSE LET before == Drop(b, 2)
         IN  IF before[1] = NAV_CLASS
             THEN LET r == Nav_from_bytes(Tail(before))
                  IN  IF r.ok THEN MsgTrailer(before, r.rest) ELSE FromErr(r.err)
             ELSE IF before[1] = UPD_CLASS THEN FromOk(0)
             ELSE FromErr("InvalidClass")

\* the loop of NmeaFrame::from_bytes from idx on
RECURSIVE NmeaFrameScan(_, _)
NmeaFrameScan(b, idx) ==
    IF Len(b) > idx + 1
    THEN IF b[idx + 1] = CR
         THEN IF b[idx + 2] = LF
              THEN IF from_utf8_ok(Take(b, idx + 2)) THEN FromOk(idx + 2)
                   ELSE FromErr("Invalid")
              ELSE NmeaFrameScan(b, idx + 2)
         ELSE NmeaFrameScan(b, idx + 1)
    ELSE FromErr("NotEnoughData")

\* NmeaFrame::from_bytes
NmeaFrame_from_bytes(b) ==
    IF ~(b # <<>> /\ b[1] = NMEA_PREAMBLE) THEN FromErr("InvalidHeader")
    ELSE NmeaFrameScan(b, 0)

\* GpsMsg::from_bytes of main.rs
GpsMsg_from_bytes(b) ==
    IF Len(b) > 1 /\ b[1] = UBX_SYNC1 /\ b[2] = UBX_SYNC2 THEN Msg_from_bytes(b)
    ELSE IF b # <<>> /\ b[1] = RTCM_PREAMBLE
    THEN IF from_bytes(b).ok THEN FromOk(from_bytes(b).size) ELSE FromErr(from_bytes(b).err)
    ELSE IF b # <<>> /\ b[1] = NMEA_PREAMBLE THEN NmeaFrame_from_bytes(b)
    ELSE FromErr("InvalidHeader")

\* what one call of stream.read may append to the buffer
DeviceReads ==
    { UbxFrame(<<NAV_CLASS, NAV_EOE, 4, 0, 7, 0, 0, 0>>),
      UbxFrame(<<NAV_CLASS, NAV_EOE, 5, 0, 7, 0, 0, 0, 0>>),
      UbxFrameBadSum(<<NAV_CLASS, NAV_EOE, 4, 0, 7, 0, 0, 0>>),
      <<UBX_SYNC1, UBX_SYNC2, NAV_CLASS, NAV_EOE>>,
      <<UBX_SYNC1, UBX_SYNC2, NAV_CLASS, 5>>,
      <<UBX_SYNC1, UBX_SYNC2, UPD_CLASS, 1>>,
      <<UBX_SYNC1, UBX_SYNC2, 7, 0>>,
      RtcmMsg, NmeaMsg, <<0>> }

RawIdle ==
    /\ r_buffer = <<>>
    /\ r_pc = "idle"
    /\ r_turns = 0
    /\ r_seen = "none"
    /\ r_prev = <<>>
    /\ r_reads = 0

\* GpsDevice::new
RawInit == RawIdle

\* extend_buffer between two reads; ok says whether stream.read succeeds
extend_buffer ==
    /\ r_pc # "loop"
    /\ r_reads < MaxReads
    /\ r_reads' = r_reads + 1
    /\ \E ok \in BOOLEAN, bytes \in DeviceReads :
         r_buffer' = IF ok THEN r_buffer \o bytes ELSE r_buffer
    /\ UNCHANGED <<r_pc, r_turns, r_seen, r_prev>>
    /\ RawFrame

\* read() calls read_raw
RawCall ==
    /\ r_pc # "loop"
    /\ r_pc' = "loop"
    /\ r_turns' = 0
    /\ r_seen' = "none"
    /\ r_prev' = r_buffer
    /\ UNCHANGED <<r_buffer, r_reads>>
    /\ RawFrame

\* the state of read_raw after a turn of its loop on the result r of
\* GpsMsg::from_bytes
read_raw(buffer, r) ==
    IF r.ok THEN [buffer |-> Drop(buffer, r.used), pc |-> "ok"]
    ELSE IF r.err = "InvalidLen" THEN [buffer |-> buffer, pc |-> "loop"]
    ELSE [buffer |-> buffer, pc |-> "err"]

\* one turn of read_raw's loop
RawTurn ==
    /\ r_pc = "loop"
    /\ r_turns < MaxTurns
    /\ LET r == GpsMsg_from_bytes(r_buffer)
       IN  /\ r_buffer' = read_raw(r_buffer, r).buffer
           /\ r_pc' = read_raw(r_buffer, r).pc
           /\ r_seen' = IF r.ok THEN "Ok" ELSE r.err
    /\ r_turns' = r_turns + 1
    /\ r_prev' = r_buffer
    /\ UNCHANGED r_reads
    /\ RawFrame

RawNext == extend_buffer \/ RawCall \/ RawTurn

-----------------------------------------------------------------------------
(* The hub loop of bin/server.rs as a task of the executor: it runs when it *)
(* has been woken, polls the arms of its select and, inside the serial arm, *)
(* the send and the flush of the pool.  A poll that returns Pending leaves   *)
(* the task's waker with the event it waits for.                             *)

SelSources == {"serial", "outgoing", "pool"}

\* Connection::poll_flush right after start_send, write_pending being
\* PendingLen: the socket takes the envelope, or poll_write returns Pending
\* and the state taken by mem::replace is not put back
conn_poll_flush(sock) ==
    IF sock = "writable" THEN [ret |-> "ready", write_pending |-> "None", lost |-> FALSE]
    ELSE [ret |-> "pending", write_pending |-> "None", lost |-> TRUE]

\* connections.send(buf).await and connections.flush().await at their first
\* poll: without a connection start_send keeps nothing
pool_send_flush(peer, sock) ==
    IF peer # "connected" THEN [ret |-> "ready", write_pending |-> "None", lost |-> FALSE]
    ELSE conn_poll_flush(sock)

\* poll_accept in ConnectionPool::poll_next
poll_accept(peer) == IF peer = "backlog" THEN "connected" ELSE peer

SelIdle ==
    /\ s_ready = [src \in SelSources |-> FALSE]
    /\ s_wakers = {}
    /\ s_awake = TRUE
    /\ s_pc = "select"
    /\ s_sock = "writable"
    /\ s_peer = "none"
    /\ s_lost = FALSE

\* run() enters its loop
SelInit == SelIdle

\* the event e happens: the task is woken if e holds its waker
Wake(e) ==
    /\ s_awake' = (s_awake \/ e \in s_wakers)
    /\ s_wakers' = s_wakers \ {e}

\* a payload becomes ready on a source
SrcArrive ==
    /\ \E src \in SelSources :
         /\ ~s_ready[src]
         /\ src = "pool" => s_peer = "connected"
         /\ s_ready' = [s_ready EXCEPT ![src] = TRUE]
         /\ Wake(src)
    /\ UNCHANGED <<s_pc, s_sock, s_peer, s_lost>>
    /\ SelFrame

\* a peer connects to the listener of the pool
SelPeerConnect ==
    /\ s_peer = "none"
    /\ s_peer' = "backlog"
    /\ Wake("pool")
    /\ UNCHANGED <<s_ready, s_pc, s_sock, s_lost>>
    /\ SelFrame

\* the peer stops reading and its socket fills up
SockFull ==
    /\ s_peer = "connected"
    /\ s_sock = "writable"
    /\ s_sock' = "full"
    /\ UNCHANGED <<s_ready, s_wakers, s_awake, s_pc, s_peer, s_lost>>
    /\ SelFrame

\* the peer reads again
SockDrain ==
    /\ s_sock = "full"
    /\ s_sock' = "writable"
    /\ Wake("peer")
    /\ UNCHANGED <<s_ready, s_pc, s_peer, s_lost>>
    /\ SelFrame

\* the arm of a: the serial arm forwards the message with connections.send
\* and connections.flush and waits for them, the other arms hand the payload
\* to handle_incomming
arm(a, peer, sock) ==
    IF a = "serial" THEN pool_send_flush(peer, sock)
    ELSE [ret |-> "ready", write_pending |-> "None", lost |-> FALSE]

\* one turn of the loop: select! polls its arms in a random order up to the
\* first one that is ready, a, and runs its arm; polled are the arms it polled
\* before, which were Pending
HubSelect(a) ==
    /\ s_pc = "select"
    /\ s_awake
    /\ s_ready[a]
    /\ \E polled \in SUBSET {src \in SelSources : ~s_ready[src]} :
         LET peer == IF "pool" \in polled \cup {a} THEN poll_accept(s_peer) ELSE s_peer
             r == arm(a, peer, s_sock)
         IN  /\ s_peer' = peer
             /\ s_ready' = [s_ready EXCEPT ![a] = FALSE]
             /\ s_lost' = (s_lost \/ r.lost)
             /\ s_pc' = IF r.ret = "pending" THEN "flush" ELSE "select"
             /\ s_awake' = (r.ret = "ready")
             /\ s_wakers' = s_wakers \cup polled
                               \cup (IF r.ret = "pending" THEN {"peer"} ELSE {})
    /\ UNCHANGED s_sock
    /\ SelFrame

\* one turn of the loop with no arm ready: every arm is polled and the task
\* sleeps
HubSleep ==
    /\ s_pc = "select"
    /\ s_awake
    /\ \A src \in SelSources : ~s_ready[src]
    /\ s_peer' = poll_accept(s_peer)
    /\ s_wakers' = s_wakers \cup SelSources
    /\ s_awake' = FALSE
    /\ UNCHANGED <<s_ready, s_pc, s_sock, s_lost>>
    /\ SelFrame

\* the task is polled while the serial arm waits for the flush: write_pending
\* is None, so Connection::poll_flush returns what TcpStream::poll_flush
\* returns, and run() goes on to the next turn
HubResume ==
    /\ s_pc = "flush"
    /\ s_awake
    /\ s_pc' = "select"
    /\ UNCHANGED <<s_ready, s_wakers, s_awake, s_sock, s_peer, s_lost>>
    /\ SelFrame

SelNext ==
    \/ SrcArrive
    \/ SelPeerConnect
    \/ SockFull
    \/ SockDrain
    \/ \E a \in SelSources : HubSelect(a)
    \/ HubSleep
    \/ HubResume

\* the executor polls a woken task, and the random order of select! does not
\* pass over an arm that stays ready
SelFairness ==
    /\ WF_vars(HubSleep)
    /\ WF_vars(HubResume)
    /\ \A a \in SelSources : SF_vars(HubSelect(a))

-----------------------------------------------------------------------------
(* The specifications *)

\* each specification starts its own component and leaves the others as built
InitConn == ConnInit /\ PoolIdle /\ HubIdle /\ OutIdle /\ CfgIdle /\ DevIdle /\ CodecIdle /\ GetIdle /\ ProbeIdle /\ BridgeIdle /\ RawIdle /\ SelIdle
InitPool == PoolInit /\ ConnIdle /\ HubIdle /\ OutIdle /\ CfgIdle /\ DevIdle /\ CodecIdle /\ GetIdle /\ ProbeIdle /\ BridgeIdle /\ RawIdle /\ SelIdle
InitHub == HubInit /\ ConnIdle /\ PoolIdle /\ OutIdle /\ CfgIdle /\ DevIdle /\ CodecIdle /\ GetIdle /\ ProbeIdle /\ BridgeIdle /\ RawIdle /\ SelIdle

\* a UBX frame the serial link has damaged: its checksum does not verify
UbxBadMsg == UbxFrameBadSum(<<1, 2, 0, 0>>)

\* a serial stream with damaged frames among the valid messages
CorruptStreams == SeqsUpTo({ UbxMsg, NmeaMsg, UbxBadMsg }, MaxSegs) \ {<<>>}

\* run() before the loop, the receiver about to send a stream with damaged frames
HubInitCorrupt ==
    /\ \E segs \in CorruptStreams :
         /\ h_stream = Concat(segs)
         /\ h_expected = ValidOf(segs)
    /\ h_pending_read_bytes = <<>>
    /\ h_forwarded = <<>>
    /\ h_loop = "running"
    /\ h_quit = FALSE
    /\ h_last = [src |-> "none", msg |-> <<>>]
    /\ h_written = <<>>
    /\ h_port = Opened("/dev/ttyACM0", 9600)

InitCorrupt == HubInitCorrupt /\ ConnIdle /\ PoolIdle /\ OutIdle /\ CfgIdle /\ DevIdle /\ CodecIdle /\ GetIdle /\ ProbeIdle /\ BridgeIdle /\ RawIdle /\ SelIdle
InitOut == OutInit /\ ConnIdle /\ PoolIdle /\ HubIdle /\ CfgIdle /\ DevIdle /\ CodecIdle /\ GetIdle /\ ProbeIdle /\ BridgeIdle /\ RawIdle /\ SelIdle
InitDev == DevInit /\ ConnIdle /\ PoolIdle /\ HubIdle /\ OutIdle /\ CfgIdle /\ CodecIdle /\ GetIdle /\ ProbeIdle /\ BridgeIdle /\ RawIdle /\ SelIdle
InitCfg == CfgInit /\ DevInit /\ ConnIdle /\ PoolIdle /\ HubIdle /\ OutIdle /\ CodecIdle /\ GetIdle /\ ProbeIdle /\ BridgeIdle /\ RawIdle /\ SelIdle

SpecConn == InitConn /\ [][ConnNext]_vars
InitWrite == WriteInit /\ PoolIdle /\ HubIdle /\ OutIdle /\ CfgIdle /\ DevIdle /\ CodecIdle /\ GetIdle /\ ProbeIdle /\ BridgeIdle /\ RawIdle /\ SelIdle
SpecWrite == InitWrite /\ [][WriteNext]_vars

SpecPool == InitPool /\ [][PoolNext]_vars

SpecSink == InitPool /\ [][SinkNext]_vars
SpecBroadcast == InitPool /\ [][BroadcastNext]_vars

InitPeers == PeersInit /\ ConnIdle /\ HubIdle /\ OutIdle /\ CfgIdle /\ DevIdle /\ CodecIdle /\ GetIdle /\ ProbeIdle /\ BridgeIdle /\ RawIdle /\ SelIdle
SpecPeers == InitPeers /\ [][PoolNext]_vars
SpecHub == InitHub /\ [][HubNext]_vars
SpecCorrupt == InitCorrupt /\ [][HubNext]_vars

SpecOut == InitOut /\ [][OutNext]_vars

\* the timer fires, the connect completes, the peer writes and the hub polls
SpecOutFair == SpecOut /\ OutFairness
InitPark == OutInitNone /\ ConnIdle /\ PoolIdle /\ HubIdle /\ CfgIdle /\ DevIdle /\ CodecIdle /\ GetIdle /\ ProbeIdle /\ BridgeIdle /\ RawIdle /\ SelIdle
SpecPark == InitPark /\ [][ParkNext]_vars

SpecDev == InitDev /\ [][DevNext]_vars

SpecCfg == InitCfg /\ [][CfgNext]_vars

InitCodec == CodecInit /\ ConnIdle /\ PoolIdle /\ HubIdle /\ OutIdle /\ CfgIdle /\ DevIdle /\ GetIdle /\ ProbeIdle /\ BridgeIdle /\ RawIdle /\ SelIdle
SpecCodec == InitCodec /\ [][CodecNext]_vars

InitGet == GetInit /\ ConnIdle /\ PoolIdle /\ HubIdle /\ OutIdle /\ CfgIdle /\ DevIdle /\ CodecIdle /\ ProbeIdle /\ BridgeIdle /\ RawIdle /\ SelIdle
SpecGet == InitGet /\ [][GetNext]_vars
InitProbe == ProbeInit /\ ConnIdle /\ PoolIdle /\ HubIdle /\ OutIdle /\ CfgIdle /\ DevIdle /\ CodecIdle /\ GetIdle /\ BridgeIdle /\ RawIdle /\ SelIdle
SpecProbe == InitProbe /\ [][ProbeNext]_vars
InitBridge == BridgeInit /\ ConnIdle /\ PoolIdle /\ HubIdle /\ OutIdle /\ CfgIdle /\ DevIdle /\ CodecIdle /\ GetIdle /\ ProbeIdle /\ RawIdle /\ SelIdle
SpecBridge == InitBridge /\ [][BridgeNext]_vars
InitRaw == RawInit /\ ConnIdle /\ PoolIdle /\ HubIdle /\ OutIdle /\ CfgIdle /\ DevIdle /\ CodecIdle /\ GetIdle /\ ProbeIdle /\ BridgeIdle /\ SelIdle
SpecRaw == InitRaw /\ [][RawNext]_vars
InitSel == SelInit /\ ConnIdle /\ PoolIdle /\ HubIdle /\ OutIdle /\ CfgIdle /\ DevIdle /\ CodecIdle /\ GetIdle /\ ProbeIdle /\ BridgeIdle /\ RawIdle
SpecSel == InitSel /\ [][SelNext]_vars

\* the hub task is polled when woken and its select is fair
SpecSelFair == SpecSel /\ SelFairness

-----------------------------------------------------------------------------
(* C2 *)

\* everything the peer wrote has been read and the stream has nothing more to do
ConnQuiescent ==
    /\ c_arrived = Len(EnvelopeStream(c_xs))
    /\ c_rx = <<>>
    /\ c_last = "pending"

\* C2: envelope round trip.  Whatever the split of the peer's bytes into socket
\* reads, the stream yields the payloads written, in order, each once: what it
\* has yielded is always a prefix of xs, and once all bytes have been read and
\* the stream reports Pending it has yielded all of xs.
C2_EnvelopeRoundTrip ==
    /\ IsPrefix(c_yielded, c_xs)
    /\ ConnQuiescent => c_yielded = c_xs

-----------------------------------------------------------------------------
(* C1 *)

\* the sockets that were in the pool when the last broadcast was handed to it
\* and are still in it
Receivers == { t \in Socks : InPool(t) /\ p_joined[t] # NoneVal /\ p_joined[t] < Len(p_log) }

\* C1: broadcast atomicity.  Once send and flush have completed, every
\* connection still in the pool that the payload was broadcast to has had the
\* whole envelope written to its socket: none is left with a prefix of it.
C1_BroadcastAtomicity ==
    (p_phase = "idle" /\ p_log # <<>>) =>
        \A t \in Receivers : p_wire[t] = write_message(p_log[Len(p_log)])

-----------------------------------------------------------------------------
(* C9 *)

Accepted == { t \in Socks : p_joined[t] # NoneVal }

\* C9: failure isolation.  The connections of the pool are exactly the accepted
\* sockets that have not reported a read error, the end of their stream or a
\* write error: a failure removes the failing connection and no other.  The
\* pool's stream never yields the end of the stream and its sink never returns
\* an error.
C9_FailureIsolation ==
    /\ { t \in Socks : InPool(t) } = Accepted \ p_failed
    /\ Len(p_connections) = Cardinality(Accepted \ p_failed)
    /\ p_last.kind \notin {"err", "none"}

\* a connection failed during a broadcast and was removed, another one is still
\* in the pool and the broadcast has completed
C9_Witness ==
    /\ p_phase = "idle"
    /\ p_last.op = "send"
    /\ p_failed # {}
    /\ p_connections # <<>>

-----------------------------------------------------------------------------
(* C10 *)

\* C10: a payload broadcast while the pool is empty completes at once and is
\* not kept; once a broadcast has completed the send slot is empty, every peer
\* that was in the pool when the payload was handed over has received exactly
\* its envelope, and a peer that joined later has received nothing of it.
C10_EmptyPoolDiscards ==
    p_phase = "idle" =>
        /\ p_send = SendNone
        /\ \A t \in Socks :
             InPool(t) =>
                p_wire[t] = IF t \in Receivers
                            THEN write_message(p_log[Len(p_log)])
                            ELSE <<>>

-----------------------------------------------------------------------------
(* C3 *)

\* C3: once the hub has handled a payload that parses as the Server frame
\* Quit, from any peer source, the loop has exited with success and runs no
\* further iteration.
C3_QuitExits == h_quit => h_loop = "ok"

-----------------------------------------------------------------------------
(* C4 *)

\* C4: framing resync.  Whatever the split of the serial stream into reads,
\* the messages the hub splits off and forwards are the valid messages of the
\* stream, in order: always a prefix of them, and all of them once the whole
\* stream has been read.
C4_FramingResync ==
    /\ IsPrefix(h_forwarded, h_expected)
    /\ (h_stream = <<>> /\ h_loop = "running") => h_forwarded = h_expected

-----------------------------------------------------------------------------
(* C5 *)

\* C5: reconnect.  While the upstream address is unreachable the stream yields
\* nothing, is never Connected and never terminates, and as long as that lasts
\* it keeps passing through Connecting and Waiting; once the address is
\* reachable the stream reaches Connected, and it yields an item, the first
\* one of a connection being the first envelope the peer sent.
C5_Reconnect ==
    /\ [](~o_reachable => (o_yielded = <<>> /\ o_state # "Connected" /\ ~o_connected))
    /\ [](o_last # "none" /\ ~is_terminated)
    /\ (<>[](~o_reachable)) => ([]<>(o_state = "Connecting") /\ []<>(o_state = "Waiting"))
    /\ (o_reachable ~> o_connected)
    /\ [](o_yielded # <<>> => o_yielded[1] = o_xs[1])
    /\ (o_reachable ~> (o_yielded # <<>>))

-----------------------------------------------------------------------------
(* C6 *)

MatchingAck == Item(ack_frame(ACK_ACK, CFG_CLASS, VALSET_ID))

\* C6: ACK correlation in set of the TCP configuration client.  A chunk is
\* completed in a step if and only if set was waiting and that step received
\* an ACK frame for class 0x06, id 0x8a; nothing else that arrives, and
\* nothing after the connection closed, completes a chunk.
C6_AckCorrelation ==
    [][ (g_done' # g_done) <=>
        (g_pc = "wait" /\ g_last' = MatchingAck /\ g_done' = g_done + 1) ]_vars

\* set has completed a file of several chunks, each on its ACK
C6_Witness ==
    /\ g_pc = "finished"
    /\ g_nchunks >= 2
    /\ g_done = g_nchunks
    /\ g_last = MatchingAck

-----------------------------------------------------------------------------
(* C7 *)

\* C7: once a NAK for (0x06, 0x8a) has answered a VALSET message, the SET is
\* over: the TCP client has left its loop and writes no further VALSET, and
\* set of the command line writes no further VALSET either, however many
\* chunks remain.
C7_NakAborts ==
    [][ /\ g_nak => (g_pc = "nak" /\ g_sent' = g_sent)
        /\ m_nak => (m_pc = "bailed" /\ m_sent' = m_sent) ]_vars

\* both clients were refused, the TCP client with a chunk still to send
C7_Witness ==
    /\ g_nak
    /\ g_sent < g_nchunks
    /\ m_nak

-----------------------------------------------------------------------------
(* C8 *)

\* C8: at most one CFG transaction is in flight.  pending_ack holds a
\* transaction exactly when the semaphore has no free permit, the semaphore
\* never has more than its one permit, and no config() has replaced a
\* pending_ack that was still unresolved.
C8_SingleTransaction ==
    /\ (d_pending_ack.tag = "Some") <=> (d_permits = 0)
    /\ d_permits \in {0, 1}
    /\ ~d_overwrote

-----------------------------------------------------------------------------
(* C11 *)

\* number of times the socket t occurs in the sequence q
RECURSIVE Occurrences(_, _)
Occurrences(q, t) ==
    IF q = <<>> THEN 0
    ELSE (IF Head(q) = t THEN 1 ELSE 0) + Occurrences(Tail(q), t)

\* C11: peer removal during a broadcast in flight.  Whatever the interleaving
\* of stream polls and sink polls, the cursor of a pending send indexes an
\* existing connection, and once the send slot is empty again every peer that
\* was in the pool when the payload was handed over and is still in it has been
\* handed the payload exactly once.
C11_RemovalInFlight ==
    /\ p_send.tag = "Some" => p_send.idx < Len(p_connections)
    /\ (p_send = SendNone /\ p_log # <<>>) =>
           \A t \in Receivers : Occurrences(p_handed, t) = 1

-----------------------------------------------------------------------------
(* C12 *)

\* C12: the stream of the pool yields no inbound payload while a broadcast is
\* in flight: whenever poll_next has returned an item the send slot is empty.
C12_NoYieldInFlight ==
    (p_last.op = "next" /\ p_last.kind = "item") => p_send = SendNone

-----------------------------------------------------------------------------
(* C13 *)

\* the payloads that are a Server control frame: '%' and the byte of ResetPort
\* or of Quit, whatever follows
IsServerFrame(x) == Len(x) >= 2 /\ x[1] = 37 /\ x[2] \in {0, 1}

\* C13: in every step that handles a payload from a peer (the steps that leave
\* the serial input alone), a payload that is a Server control frame is not
\* written to the serial device, and any other payload is what has been
\* written to it and flushed, byte for byte, unless the device failed and the
\* loop has ended.
C13_VerbatimForward ==
    [][h_stream' = h_stream =>
          IF IsServerFrame(h_last'.msg)
          THEN h_written' = h_written
          ELSE h_loop' = "running" => h_written' = h_last'.msg]_vars

\* a payload that starts with '%' but is no control frame has been written
C13_Witness ==
    /\ h_last.src \in Sources
    /\ h_last.msg = <<37, 9>>
    /\ h_written = h_last.msg
    /\ h_loop = "running"

-----------------------------------------------------------------------------
(* C14 *)

\* C14: in every call of try_send_message: it returns true only from Connected
\* with the whole envelope written; when the write fails it returns false and
\* the state becomes Waiting; from any other state than Connected it returns
\* false, writes nothing and leaves the state as it is.
C14_TrySend ==
    [][o_try'.n # o_try.n =>
          /\ o_try'.ret =>
                /\ o_state = "Connected"
                /\ o_try'.wrote = to_le_bytes(Len(o_try'.msg)) \o o_try'.msg
          /\ o_try'.err => (~o_try'.ret /\ o_state' = "Waiting" /\ o_timer' = "armed")
          /\ o_state # "Connected" =>
                /\ ~o_try'.ret
                /\ o_try'.wrote = <<>>
                /\ UNCHANGED <<o_state, o_timer, o_connect, o_conn>>]_vars

\* a call in Connected failed after the length was written
C14_Witness ==
    /\ o_try.n > 0
    /\ o_try.err
    /\ Len(o_try.wrote) = 4
    /\ o_state = "Waiting"

-----------------------------------------------------------------------------
(* C15 *)

\* C15: an OutgoingConnection without an address parks: whatever polls and
\* calls of try_send_message happen, it stays in Start, never starts a
\* connection, never yields an item and never ends its stream.
C15_NoneParks ==
    /\ o_state = "Start"
    /\ o_connect = "none"
    /\ ~o_connected
    /\ o_yielded = <<>>
    /\ o_last \in {"init", "pending"}
    /\ ~is_terminated
    /\ ~o_try.ret

\* the parked stream has been polled and offered a message while the
\* upstream was reachable
C15_Witness ==
    /\ o_address = "None"
    /\ o_reachable
    /\ o_last = "pending"
    /\ o_try.n > 0

-----------------------------------------------------------------------------
(* C23 *)

\* the transitions the state machine is said to take, each with its cause
SaidTransitions ==
    { [from |-> "Start", to |-> "Connecting", why |-> "connect", address |-> "Some"],
      [from |-> "Connecting", to |-> "Connected", why |-> "connect ok", address |-> "Some"],
      [from |-> "Connecting", to |-> "Waiting", why |-> "connect err", address |-> "Some"],
      [from |-> "Waiting", to |-> "Start", why |-> "timer", address |-> "Some"],
      [from |-> "Connected", to |-> "Waiting", why |-> "read none", address |-> "Some"],
      [from |-> "Connected", to |-> "Waiting", why |-> "read err", address |-> "Some"],
      [from |-> "Connected", to |-> "Waiting", why |-> "write err", address |-> "Some"] }

\* Connecting is also left into Waiting when the connect succeeded and
\* set_nodelay failed on the new socket
TakenTransitions ==
    SaidTransitions \cup
    { [from |-> "Connecting", to |-> "Waiting", why |-> "set_nodelay err",
       address |-> "Some"] }

\* path leads from state a to state b, one assignment after the other
Leads(a, path, b) ==
    IF path = <<>>
    THEN a = b
    ELSE /\ path[1].from = a
         /\ path[Len(path)].to = b
         /\ \A i \in 1..(Len(path) - 1) : path[i].to = path[i + 1].from

\* C23 as stated: self.connection changes only by the transitions
\* Start -> Connecting (address set), Connecting -> Connected (connect
\* succeeded), Connecting -> Waiting (connect failed), Waiting -> Start (timer
\* elapsed) and Connected -> Waiting (stream ended, read error, write error).
C23_SaidTransitions ==
    [][/\ Leads(o_state, IF o_path' = o_path /\ o_state' = o_state THEN <<>> ELSE o_path',
               o_state')
       /\ \A i \in 1..Len(o_path') : o_path'[i] \in SaidTransitions]_vars

\* C23: self.connection changes only inside poll_next and try_send_message,
\* and only by the transitions Start -> Connecting (address set), Connecting
\* -> Connected (connect succeeded and set_nodelay succeeded), Connecting ->
\* Waiting (connect failed, or set_nodelay failed on the connected socket),
\* Waiting -> Start (timer elapsed) and Connected -> Waiting (stream ended,
\* read error, write error); so a new connect attempt after a failure starts
\* from Waiting, and Connected is left only into Waiting.
C23_Transitions ==
    [][/\ Leads(o_state, IF o_path' = o_path /\ o_state' = o_state THEN <<>> ELSE o_path',
               o_state')
       /\ \A i \in 1..Len(o_path') : o_path'[i] \in TakenTransitions
       /\ (o_state = "Connected" /\ o_state' # "Connected") =>
              (o_path' # <<>> /\ o_path'[1].to = "Waiting")]_vars

\* one poll left Connected at the end of the stream, waited, and after the
\* timer a later poll went Waiting -> Start -> Connecting
C23_Witness ==
    /\ o_connected
    /\ o_state = "Connecting"
    /\ Len(o_path) = 2
    /\ o_path[1].why = "timer"
    /\ o_path[2].why = "connect"

-----------------------------------------------------------------------------
(* C24 *)

\* C24: whatever partial writes and Pending results the socket produces, the
\* bytes the sink has written are always the beginning of the envelopes (4
\* bytes of little-endian length, then the payload) of the items submitted, in
\* order, no byte lost and none written twice; and when poll_ready or
\* poll_flush returns Ready(Ok) all of them have been written.
C24_SinkEnvelopes ==
    SinkUsable =>
        /\ IsPrefix(c_sink.out, EnvelopeStream(c_sink.items))
        /\ (c_sink.op \in {"ready", "flush"} /\ c_sink.kind = "ok") =>
               c_sink.out = EnvelopeStream(c_sink.items)

-----------------------------------------------------------------------------
(* C25 *)

\* C25: once the socket is at the end of its stream, a poll of the Connection
\* stream never returns an error and never Pending; the poll that reads the
\* end returns None and yields nothing, also when the buffer holds the
\* beginning of an envelope, and it leaves no read behind.
C25_EndOfStream ==
    [][(c_rd = "eof" /\ c_rd' = "eof") =>
          /\ c_last' \in {"item", "none"}
          /\ c_rx = <<>> => c_last' = "none"
          /\ c_last' = "none" => (c_yielded' = c_yielded /\ c_rx' = <<>>)]_vars

\* the stream ended in the middle of an envelope: its length was read, its
\* payload had not all arrived
C25_Witness ==
    /\ c_rd = "eof"
    /\ c_last = "none"
    /\ c_conn.pending # NoneVal
    /\ c_conn.pending > Len(c_conn.buffer)
    /\ c_arrived < Len(EnvelopeStream(c_xs))

-----------------------------------------------------------------------------
(* C26 *)

\* the values of the VALSET messages in ss, one after the other
RECURSIVE Flatten(_)
Flatten(ss) == IF ss = <<>> THEN <<>> ELSE Head(ss) \o Flatten(Tail(ss))

\* C26: in set of the TCP configuration client every VALSET carries between 1
\* and 64 values, the values sent so far are the beginning of the file's list
\* in the file's order, each once; VALSET number k + 1 is written only when k
\* ACK frames for (0x06, 0x8a) have been received; and when set has finished
\* with every chunk acknowledged, all values of the file have been sent.
C26_Chunks ==
    /\ \A k \in 1..Len(g_keys.sent) : Len(g_keys.sent[k]) \in 1..64
    /\ IsPrefix(Flatten(g_keys.sent), g_keys.file)
    /\ Len(g_keys.sent) <= g_keys.acks + 1
    /\ g_pc = "finished" =>
          /\ Flatten(g_keys.sent) = g_keys.file
          /\ g_keys.acks = Len(g_keys.sent)

\* a file of more than 64 values has been sent in two VALSETs, the second
\* shorter than the first
C26_Witness ==
    /\ g_pc = "finished"
    /\ Len(g_keys.sent) = 2
    /\ Len(g_keys.sent[1]) = 64
    /\ Len(g_keys.sent[2]) = 1

-----------------------------------------------------------------------------
(* C27 *)

\* C27: set of the command line returns success only when it has sent every
\* chunk of its value list, one VALSET each.
C27_EveryChunkSent == m_pc = "returned" => m_sent = m_nchunks

-----------------------------------------------------------------------------
(* C28 *)

\* C28: GpsDevice::read resolves the pending acknowledgement of a CFG message
\* only on an ACK or NAK whose class is 0x06 and whose message id is the
\* pending one; an ACK or NAK with that message id and another class leaves
\* it pending.
C28_AckClassAndId ==
    [][(d_pending_ack.tag = "Some" /\ d_pending_ack' = AckNone) =>
          /\ d_last'.op = "read"
          /\ d_last'.m.kind \in {"Ack", "Nak"}
          /\ d_last'.m.cls_id = CFG_CLASS
          /\ d_last'.m.msg_id = d_pending_ack.id]_vars

-----------------------------------------------------------------------------
(* C29 *)

\* C29: whenever the hub loop is running, and so whenever it reads from or
\* writes to the serial port, the handle is present and is the port of
\* port_path opened with port_baud; no read or write finds it missing; the
\* handle is only replaced while a ResetPort frame is handled, and the loop
\* goes on after a ResetPort only with the port open again.
C29_PortPresent ==
    /\ [](h_loop = "running" => h_port.port = SerialStream(h_port.port_path, h_port.port_baud))
    /\ [](h_loop # "panic")
    /\ [][h_port'.port.tag = "None" =>
             (h_last'.msg = ResetPortMsg /\ h_loop' = "err")]_vars

\* a ResetPort frame was handled and the loop goes on
C29_Witness ==
    /\ h_last.msg = ResetPortMsg
    /\ h_loop = "running"
    /\ h_port.port.tag = "Some"

-----------------------------------------------------------------------------
(* C30 *)

\* f is a UBX frame whose Fletcher checksum over class, id, length and
\* payload is not the one it carries
UbxCorrupt(f) ==
    /\ Ubx_contains_prefix(f)
    /\ Len(f) >= 8
    /\ ~checksum_valid(SubSeq(f, 3, Len(f) - 2), f[Len(f) - 1], f[Len(f)])

\* C30: no frame whose checksum does not verify is forwarded by the hub, and
\* framing resyncs after it: what has been forwarded is always the beginning
\* of the valid messages of the serial stream, and all of them once the
\* stream has been read.
C30_CorruptDropped ==
    /\ \A i \in 1..Len(h_forwarded) : ~UbxCorrupt(h_forwarded[i])
    /\ IsPrefix(h_forwarded, h_expected)
    /\ (h_stream = <<>> /\ h_loop = "running") => h_forwarded = h_expected

\* C16: codec round trip.  For every GpsMsg value m, of every variant, class
\* and message id of the model, GpsMsg::parse_read of the bytes that
\* m.parse_write produced returns m and an empty remainder.
C16_RoundTrip ==
    k_back.done => k_back.r.ok /\ k_back.r.v = k_msg /\ k_back.r.rest = <<>>

\* an input that is exactly one UBX frame: the sync bytes, class, id, the
\* length, that many payload bytes and two trailing bytes
WellFramed(b) ==
    /\ Len(b) >= 8
    /\ b[1] = UBX_SYNC1 /\ b[2] = UBX_SYNC2
    /\ Len(b) = 8 + b[5] + 256 * b[6]

\* the two trailing bytes differ from the checksum over class..payload_end
BadSum(b) == checksum(SubSeq(b, 3, Len(b) - 2)) # <<b[Len(b) - 1], b[Len(b)]>>

\* the same frame with the checksum of its bytes
FixSum(b) == SubSeq(b, 1, Len(b) - 2) \o checksum(SubSeq(b, 3, Len(b) - 2))

\* C17: a UBX checksum mismatch is a hard parse error.  Ubx::parse_read and
\* UbxPoll::parse_read accept no frame, of a known or an unknown class, whose
\* two trailing bytes differ from the Fletcher checksum over class..payload_end,
\* and a frame that the parser accepts with the right trailer fails with
\* InvalidChecksum.
C17_ChecksumHardError ==
    (k_res.done /\ k_res.parser \in {"Ubx", "UbxPoll"} /\ WellFramed(k_feed) /\ BadSum(k_feed))
        => /\ ~k_res.r.ok
           /\ Apply(k_res.parser, FixSum(k_feed)).ok => k_res.r.err = "InvalidChecksum"

\* the ACK-ACK of CFG-VALSET as a message
AckOfValset ==
    [t |-> "Ubx", class |-> ACK_CLASS,
     inner |-> [var |-> "Ack", cls_id |-> CFG_CLASS, msg_id |-> VALSET_ID]]

\* C18 as stated: the bytes B5 62 05 01 02 00 06 8A 98 C6 given to
\* GpsMsg::parse_read or Ubx::parse_read yield the UBX ACK-ACK with
\* cls_id = 0x06 and msg_id = 0x8A and an empty remainder.
C18_AckBytesC6 ==
    (k_res.done /\ k_res.parser \in {"GpsMsg", "Ubx"} /\ k_feed = AckBytesC6)
        => k_res.r.ok /\ k_res.r.v = AckOfValset /\ k_res.r.rest = <<>>

\* C18: the bytes B5 62 05 01 02 00 06 8A 98 C1, whose trailer is the checksum
\* of the frame, given to GpsMsg::parse_read or Ubx::parse_read yield the UBX
\* ACK-ACK with cls_id = 0x06 and msg_id = 0x8A and an empty remainder; the
\* bytes that end in 98 C6 fail with InvalidChecksum.
C18_AckBytes ==
    (k_res.done /\ k_res.parser \in {"GpsMsg", "Ubx"})
        => /\ k_feed = <<181, 98, 5, 1, 2, 0, 6, 138, 152, 193>>
              => k_res.r.ok /\ k_res.r.v = AckOfValset /\ k_res.r.rest = <<>>
           /\ k_feed = AckBytesC6 => ~k_res.r.ok /\ k_res.r.err = "InvalidChecksum"

C18_Witness ==
    /\ k_res.done /\ k_res.parser = "GpsMsg"
    /\ k_feed = <<181, 98, 5, 1, 2, 0, 6, 138, 152, 193>>
    /\ k_res.r.ok /\ k_res.r.v.inner.msg_id = 138

\* C19: for every frame that RtcmFrame::from_bytes accepts, kind is the high
\* 12 bits of the big-endian u16 made of the frame's bytes 3 and 4,
\* (b[3] << 4) | (b[4] >> 4); the frame D3 00 05 3E D0 .. has kind 0x3ED.
C19_MessageType ==
    (k_frame.done /\ k_frame.r.ok)
        => /\ k_frame.r.kind = k_feed[4] * 16 + (k_feed[5] \div 16)
           /\ SubSeq(k_feed, 1, 5) = <<211, 0, 5, 62, 208>> => k_frame.r.kind = 1005

\* the index of the \r of the first \r\n of b as parse_read pairs the bytes
\* after the $, or 0
RECURSIVE SentenceEnd(_, _)
SentenceEnd(b, i) ==
    IF i > Len(b) THEN 0
    ELSE IF b[i] # CR THEN SentenceEnd(b, i + 1)
    ELSE IF i + 1 > Len(b) THEN 0
    ELSE IF b[i + 1] = LF THEN i
    ELSE SentenceEnd(b, i + 2)

\* a sentence with a byte outside ASCII before its terminating \r\n
NonAsciiSentence(b) ==
    /\ Nmea_contains_prefix(b)
    /\ SentenceEnd(b, 2) # 0
    /\ \E i \in 1..SentenceEnd(b, 2) : b[i] >= 128

\* C20: Nmea::parse_read fails for every sentence that has a byte >= 0x80
\* before its terminating \r\n, and for every sentence it accepts parse_write
\* reproduces the input bytes it consumed.
C20_NmeaAscii ==
    (k_res.done /\ k_res.parser = "Nmea")
        => /\ NonAsciiSentence(k_feed) => ~k_res.r.ok
           /\ (k_res.r.ok /\ k_out.done)
                 => k_out.bytes = Take(k_feed, Len(k_feed) - Len(k_res.r.rest))

\* C21: in get at most one VALGET request is in flight.  A request is written
\* only when every request before it was answered by a CFG-VALGET response,
\* and never after a NAK for (0x06, 0x8B) ended the operation.
C21_OneInFlight ==
    [][v_sent' # v_sent => v_sent = v_got /\ v_pc # "nak"]_vars

\* the envelopes of the payloads log[k + 1], .., one after the other
RECURSIVE EnvelopesAfter(_, _)
EnvelopesAfter(log, k) ==
    IF k >= Len(log) THEN <<>>
    ELSE write_message(log[k + 1]) \o EnvelopesAfter(log, k + 1)

\* C22: once a broadcast of the hub has completed, what has been written to
\* every peer that is still in the pool is exactly the envelopes of the
\* messages the hub broadcast after that peer joined: in order, each once,
\* none skipped.
C22_PeerStream ==
    p_phase = "idle" =>
        \A t \in Socks :
            (InPool(t) /\ p_joined[t] # NoneVal)
                => p_stream.bytes[t] = EnvelopesAfter(p_log, p_joined[t])

-----------------------------------------------------------------------------
(* C31 *)

\* m is a value of Ubx or of UbxPoll
IsUbxValue(m) == m.t \in {"Ubx", "UbxUnknown", "UbxPoll", "UbxPollUnknown"}

\* C31: every frame that parse_write emits for an Ubx or UbxPoll value, the
\* one given to the writer and the one a parser returned, Unknown variants
\* included, ends with the Fletcher checksum of its class..payload_end bytes.
C31_ChecksumRecomputed ==
    /\ (k_wire.done /\ IsUbxValue(k_msg)) => ~BadSum(k_wire.bytes)
    /\ (k_out.done /\ IsUbxValue(k_res.r.v)) => ~BadSum(k_out.bytes)

-----------------------------------------------------------------------------
(* C32 *)

\* the positions i of b, counted from 1, with CR at i and LF at i + 1
CrLfAt(b) == { i \in 1..(Len(b) - 1) : b[i] = CR /\ b[i + 1] = LF }

\* the smallest of a non-empty set of naturals
Least(S) == CHOOSE i \in S : \A j \in S : i <= j

\* the length up to and including the first CR LF of b, if there is one
FirstCrLf(b) == IF CrLfAt(b) = {} THEN UsageNone ELSE UsageSome(Least(CrLfAt(b)) + 1)

-----------------------------------------------------------------------------
(* C33 *)

\* C33: for every buffer b, GpsMsg::message_usage(b) = Some(n) implies
\* 2 <= n <= len(b); every turn of the hub's framing loop splits inside the
\* accumulator and leaves it strictly shorter, so the loop takes at most
\* len / 2 turns for an accumulator of len bytes.
C33_UsageInBounds ==
    /\ []((f_gps.done /\ f_gps.r.tag = "Some") =>
             (2 <= f_gps.r.len /\ f_gps.r.len <= Len(f_b)))
    /\ [](GpsMsg_message_usage(f_acc).tag = "Some" =>
             (2 <= GpsMsg_message_usage(f_acc).len
              /\ GpsMsg_message_usage(f_acc).len <= Len(f_acc)))
    /\ [][f_iter' # f_iter => Len(f_acc') < Len(f_acc)]_vars
    /\ [](2 * f_iter + Len(f_acc) <= Len(f_b))

\* the loop split two messages off an accumulator and stopped at the
\* beginning of a third that is not complete
C33_Witness ==
    /\ f_iter = 2
    /\ f_acc # <<>>
    /\ GpsMsg_message_usage(f_acc).tag = "None"
    /\ f_gps.done /\ f_gps.r.tag = "Some"

-----------------------------------------------------------------------------
(* C34 *)

\* C34: in the Python bridge a message that finds its channel full is
\* dropped without ending socket_loop, and the caller of that send can tell
\* it from a message that was queued: GpsConnection::send returns Ok exactly
\* when the message was queued, and socket_loop's try_send returns an error
\* exactly when it was not.
C34_DropObservable ==
    /\ b_last.op = "send" => (b_last.ret = "ok" <=> b_last.queued)
    /\ b_last.op = "forward" => (b_last.ret = "none" <=> b_last.queued)
    /\ (b_last.op \in {"send", "forward"} /\ ~b_last.queued /\ b_last.ran) => b_last.runs

-----------------------------------------------------------------------------
(* C35 *)

\* C35: when a turn of GpsDevice::read_raw meets a frame that fails with
\* InvalidLen, the frame is cut from the buffer: the buffer the next turn
\* sees is shorter than the one this turn saw, so read_raw does not try the
\* same bytes again.
C35_InvalidLenResyncs ==
    (r_turns > 0 /\ r_seen = "InvalidLen") => Len(r_buffer) < Len(r_prev)

-----------------------------------------------------------------------------
(* C36 *)

\* C36: under a fair select no source of the hub starves.  Whenever the
\* serial link, the outgoing connection or the pool has a payload ready, the
\* hub loop eventually takes it, also when the socket of a pool peer stays
\* full.
C36_NoStarvation ==
    \A src \in SelSources : s_ready[src] ~> ~s_ready[src]

-----------------------------------------------------------------------------
(* C37 *)

====
